---- MODULE Spec2Model ----
(***************************************************************************)
(* A model of syslab-wm/dnsclient: the transport clients (Do53, DoT, DoQ,  *)
(* DoH) with their connection lifecycle, and the CNAME-following           *)
(* resolution engine.                                                      *)
(*                                                                         *)
(* Two state machines share the module.  Spec runs the transport clients:  *)
(* one client, a caller that issues Exchange and Close calls, and a        *)
(* network that decides every dial and wire outcome.  SpecE runs the       *)
(* resolution engine against a server that answers each round trip with   *)
(* any response of a bounded shape.  Each specification holds the other    *)
(* machine's variables at their initial values.                            *)
(***************************************************************************)
EXTENDS Integers, Sequences, FiniteSets, TLC

VARIABLES
    \* ---- transport clients ----
    variant,    \* concrete client type: "Do53", "DoT", "DoQ" or "DoH"
    config,     \* the client's *Config
    conn,       \* the client's conn field: a handle, 0 for nil
    tcpClient,  \* the TCP-mode client built by the UDP truncation fallback
    open,       \* handles dialed and not yet closed
    nextConn,   \* next fresh handle
    pc,         \* position of the Exchange call in progress, "idle" if none
    cur,        \* the client whose TCP exchange runs: "c" or "tcpClient"
    reused,     \* local of exchangeTCP / Exchange
    retried,    \* local of exchangeTCP / Exchange
    req,        \* the caller's request message
    ret,        \* what the last Exchange call returned
    log,        \* network events of the current (or last) Exchange call
    calls,      \* Exchange calls started so far
    startConn,  \* conn when the current call started
    closeErr,   \* what the last Close call returned
    run,        \* the current run of consecutive successful exchanges
    \* ---- resolution engine ----
    maxCNAMEs,  \* config.MaxCNAMEs
    callerReq,  \* the request message the caller of Exchange holds
    ereq,       \* the message the engine works on (req)
    aliased,    \* ereq is the caller's message itself, not a copy
    iter,       \* the loop counter i
    epc,        \* position of the engine: "start", "exchange", "done", "panic", "bug"
    eresp,      \* resp, the response of the last iteration
    cnames,     \* cnames, as OrderCNAMEs left them
    eret,       \* the outcome of the query
    trips,      \* transport exchanges of the query so far
    hist,       \* what each response received so far carried
    chased,     \* the question the last response answered, and the final
                \* targets of the valid CNAME chains it carried
    \* ---- msgutil.OrderCNAMEs ----
    oin,        \* the slice as it was passed to OrderCNAMEs
    ost,        \* the slice as it is now, and the locals n, i, flag
    opc,        \* position of the call: "idle", "run", "returned", "panic"
    \* ---- New ----
    ncfg,       \* the Config passed to New
    nret,       \* what New returned: (client, err)
    npc,        \* position of the call of New: "start" or "returned"
    \* ---- the aggregation functions over Lookup ----
    afn,        \* the function that was called
    aarg,       \* its name or domain argument
    apc,        \* where the call is: "idle", a position of the function,
                \* "returned", "panic" or "bug" (mu.BUG was reached)
    aloc,       \* the local variables of the function
    alog,       \* the lookups and calls made so far, with what they returned
    aret,       \* what the function returned: (value, err)
    \* ---- the worker-pool scan ----
    wk,         \* per worker: its position, whether its client holds a
                \* connection, the name it is querying and the result
    wg,         \* the counter of the sync.WaitGroup
    inch,       \* the channel of names: buffer, closed flag, lines fed
    outch,      \* the channel of results: buffer, closed flag
    cpc,        \* the goroutine that waits and closes outch: "wait", "closed"
    mpc,        \* main: "range", "exited", or "crashed" when a panic
                \* ended the program
    stdout,     \* the records main has taken from outch and printed
    \* ---- a Do53 client in TCP mode and a DoT client side by side ----
    pair,       \* per client: conn, position, reused, retried, the numbers
                \* of calls, dials and wire exchanges so far, the network
                \* actions performed and the results returned
    script      \* the configuration and the calls, dial outcomes and wire
                \* outcomes that both clients meet, in order

tvars == <<variant, config, conn, tcpClient, open, nextConn, pc, cur, reused,
           retried, req, ret, log, calls, startConn, closeErr, run>>

evars == <<maxCNAMEs, callerReq, ereq, aliased, iter, epc, eresp, cnames, eret,
           trips, hist, chased>>

ovars == <<oin, ost, opc>>

nvars == <<ncfg, nret, npc>>

avars == <<afn, aarg, apc, aloc, alog, aret>>

wvars == <<wk, wg, inch, outch, cpc, mpc, stdout>>

pvars == <<pair, script>>

vars == <<tvars, evars, ovars, nvars, avars, wvars, pvars>>

\* what a step of the transport clients leaves alone
nonT == <<evars, ovars, nvars, avars, wvars, pvars>>

\* what a step of the resolution engine leaves alone
nonE == <<tvars, ovars, nvars, avars, wvars, pvars>>

\* what a step of OrderCNAMEs leaves alone
nonO == <<tvars, evars, nvars, avars, wvars, pvars>>

\* what a step of New leaves alone
nonN == <<tvars, evars, ovars, avars, wvars, pvars>>

\* what a step of the two clients side by side leaves alone
nonP == <<tvars, evars, ovars, nvars, avars, wvars>>

\* what a step of the worker-pool scan leaves alone
nonW == <<tvars, evars, ovars, nvars, avars, pvars>>

\* what a step of an aggregation function leaves alone
nonA == <<tvars, evars, ovars, nvars, wvars, pvars>>

-----------------------------------------------------------------------------
(* Bounds *)

\* Exchange calls per behaviour
MaxCalls == 3

\* CNAME records in the answer section of a response
MaxCNAMERecs == 2

\* address records in the answer section of a response
MaxAddrRecs == 1

\* largest Config.MaxCNAMEs tried
MaxHops == 2

\* records in a slice passed to OrderCNAMEs on its own
MaxChain == 3

\* the number of workers of the scan (opts.numWorkers) and the number of
\* lines of its input file
NumWorkers == 2

NumLines == 2

-----------------------------------------------------------------------------
(* Errors.  An error is the sequence of its messages, outermost first, so   *)
(* that fmt.Errorf("...: %w", err) prepends one message; nil is <<>>.      *)

NilErr == <<>>

EOF == <<"EOF">>

\* fmt.Errorf(msg + ": %w", err)
Wrap(msg, err) == <<msg>> \o err

\* fmt.Errorf(msg + ": %v", v): the cause is formatted, not wrapped
Errorf(msg) == <<msg>>

\* errors.Is(err, target): err or any error it wraps is target
ErrorsIs(err, target) ==
    \E i \in 1..Len(err) : SubSeq(err, i, Len(err)) = target

\* errors a dial can fail with (dns.Client.Dial)
DialErrs == { <<"dial tcp", "connection refused">>, <<"dial tcp", "i/o timeout">>,
              <<"tls handshake", "EOF">> }

\* errors net.Conn.Close can fail with
CloseErrs == { <<"close tcp", "use of closed network connection">> }

\* Close has not been called
NoClose == <<"no call has returned">>

\* errors dns.Client.ExchangeWithConn can fail with
WireErrs == { EOF, <<"read tcp", "EOF">>, <<"read tcp", "i/o timeout">>,
              <<"dns: overflow unpacking">> }

-----------------------------------------------------------------------------
(* Messages *)

\* requests the caller may pass: a transaction id and a question
Reqs == [Id : {0, 7}, Q : {"q1", "q2"}]

NilResp == [tc |-> FALSE, h |-> -1, n |-> 0]

\* a response read from handle h as the n-th wire event of the call
Resp(tc, h, n) == [tc |-> tc, h |-> h, n |-> n]

NoRet == [resp |-> NilResp, err |-> <<"no call has returned">>]

Return(resp, err) == [resp |-> resp, err |-> err]

\* fully qualified domain names of the model
Names == {"example.com.", "alias.example.com.", "target.example.com."}

\* dns.IsFqdn: the name ends with a dot
IsFqdn(s) == s \in Names

\* dns.Fqdn
Fqdn(s) == IF IsFqdn(s) THEN s ELSE s \o "."

\* record types a caller asks for
Qtypes == {"A", "CNAME"}

\* resource records: address records and CNAME records
\* the A field of an address record: the four bytes of an address, or no
\* bytes for a record that came without data
AddrData == {<<192, 0, 2, 1>>, <<>>}

AddrRecords == [Name : Names, Rrtype : {"A"}, Target : {""}, A : AddrData]

CNAMERecords == [Name : Names, Rrtype : {"CNAME"}, Target : Names]

\* sequences of at most n elements of S
SeqsUpTo(S, n) == UNION {[1..k -> S] : k \in 0..n}

\* answer sections: the CNAME records in any order, then the address records
Answers ==
    {c \o a : c \in SeqsUpTo(CNAMERecords, MaxCNAMERecs),
              a \in SeqsUpTo(AddrRecords, MaxAddrRecs)}

\* responses a server may send: any answer section with a success rcode, at
\* most one record with a failure rcode
Responses ==
    [Rcode : {"NOERROR"}, Answer : Answers]
        \cup [Rcode : {"NXDOMAIN", "SERVFAIL"}, Answer : {a \in Answers : Len(a) <= 1}]

NoResponse == [Rcode |-> "none", Answer |-> <<>>]

\* transaction ids: dns.Id() draws a random id; the model numbers the draws,
\* so that an id drawn differs from every id drawn before
FirstId == 1

NextId(id) == id + 1

NoReq == [Name |-> "", Qtype |-> "", Id |-> 0]

NoOutcome == [kind |-> "none", resp |-> NoResponse, err |-> NilErr]

\* no response received yet
NoChase == [Name |-> "", Qtype |-> "", Finals |-> {}]

-----------------------------------------------------------------------------
(* Config *)

\* netip.Addr values of Config.ClientSubnet: the zero Addr, an IPv4 and an IPv6 one
Addrs == {"zero", "v4", "v6"}

\* netip.Addr.String
AddrString(a) ==
    CASE a = "zero" -> "invalid IP"
      [] a = "v4"   -> "192.0.2.1"
      [] a = "v6"   -> "2001:db8::1"

\* netip.ParseAddr: the address, or "error" when the text is no IP address
ParseAddr(s) ==
    CASE s = "192.0.2.1"   -> "v4"
      [] s = "2001:db8::1" -> "v6"
      [] OTHER             -> "error"

Configs == [TCP : BOOLEAN, KeepOpen : BOOLEAN, IgnoreTruncation : BOOLEAN,
            ClientSubnet : Addrs]

\* netip.MustParseAddr panics when ParseAddr fails
MustParseAddrPanics(s) == ParseAddr(s) = "error"

\* Config.dup: the copy, with panic set when MustParseAddr panics
dup(cfg) ==
    IF MustParseAddrPanics(AddrString(cfg.ClientSubnet))
    THEN [panic |-> TRUE, cfg |-> cfg]
    ELSE [panic |-> FALSE,
          cfg   |-> [cfg EXCEPT !.ClientSubnet = ParseAddr(AddrString(cfg.ClientSubnet))]]

\* a fallback that sets the TCP flag through the client's own pointer
Fallback_OnOriginal(cfg) ==
    [panic |-> dup(cfg).panic,
     orig  |-> [cfg EXCEPT !.TCP = TRUE],
     copy  |-> [cfg EXCEPT !.TCP = TRUE]]

\* exchangeUDP: config2 := c.config.dup(); config2.TCP = true. orig is the
\* Config c.config points to afterwards, copy the one config2 points to
Fallback(cfg) ==
    [panic |-> dup(cfg).panic,
     orig  |-> cfg,
     copy  |-> [dup(cfg).cfg EXCEPT !.TCP = TRUE]]

NoClient == [config |-> [TCP |-> FALSE, KeepOpen |-> FALSE,
                         IgnoreTruncation |-> FALSE, ClientSubnet |-> "zero"],
             conn |-> -1]

\* the limits Validate enforces, and the default EDNS0 buffer size
MinUDPBufSize == 0

MaxUDPBufSize == 65535

MinMaxCNAMEs == 0

MaxMaxCNAMEs == 10

DefaultUDPBufSize == 4096

DefaultHTTPEndpoint == "/dns-query"

\* the fields of Config that Validate and New read
NewConfigs ==
    [UDPBufSize   : {MinUDPBufSize - 1, MinUDPBufSize, DefaultUDPBufSize,
                     MaxUDPBufSize, MaxUDPBufSize + 1},
     MaxCNAMEs    : {MinMaxCNAMEs - 1, MinMaxCNAMEs, MaxMaxCNAMEs, MaxMaxCNAMEs + 1},
     HTTPEndpoint : {"", DefaultHTTPEndpoint},
     HTTPUseGET   : BOOLEAN,
     TLS          : BOOLEAN]

\* a variant of Validate without the test that DoH and DoT exclude each other
Validate_WithoutExclusion(cfg) ==
    IF cfg.UDPBufSize < MinUDPBufSize \/ cfg.UDPBufSize > MaxUDPBufSize
    THEN Errorf("invalid UDPBufSize")
    ELSE IF cfg.MaxCNAMEs < MinMaxCNAMEs \/ cfg.MaxCNAMEs > MaxMaxCNAMEs
    THEN Errorf("invalid MaxCNAMES")
    ELSE IF cfg.HTTPEndpoint = "" /\ cfg.HTTPUseGET
    THEN Errorf("HTTPEndpoint must be a non-empty string")
    ELSE NilErr

\* Config.Validate: the first failing test's error, or nil
Validate(cfg) ==
    IF cfg.UDPBufSize < MinUDPBufSize \/ cfg.UDPBufSize > MaxUDPBufSize
    THEN Errorf("invalid UDPBufSize")
    ELSE IF cfg.MaxCNAMEs < MinMaxCNAMEs \/ cfg.MaxCNAMEs > MaxMaxCNAMEs
    THEN Errorf("invalid MaxCNAMES")
    ELSE IF cfg.HTTPEndpoint = "" /\ cfg.HTTPUseGET
    THEN Errorf("HTTPEndpoint must be a non-empty string")
    ELSE IF cfg.HTTPEndpoint # "" /\ cfg.TLS
    THEN Errorf("Cannot specify both DoH and DoT")
    ELSE NilErr

\* a nil Client
NilClient == [variant |-> "nil", conn |-> 0]

\* newDoHClient, newDoTClient and newDo53Client store the Config and build
\* the library client; none of them dials, so conn is nil
NewClient(v) == [variant |-> v, conn |-> 0]

\* New(config): (client, err)
New(cfg) ==
    IF Validate(cfg) # NilErr THEN [client |-> NilClient, err |-> Validate(cfg)]
    ELSE IF cfg.HTTPEndpoint # "" THEN [client |-> NewClient("DoH"), err |-> NilErr]
    ELSE IF cfg.TLS THEN [client |-> NewClient("DoT"), err |-> NilErr]
    ELSE [client |-> NewClient("Do53"), err |-> NilErr]

\* New has not returned
NoNew == [client |-> NilClient, err |-> <<"no call has returned">>]

-----------------------------------------------------------------------------
(* Transport clients: Do53Client, DoTClient, DoQClient, DoHClient *)

Variants == {"Do53", "DoT", "DoQ", "DoH"}

ConnOf(cl) == IF cl = "c" THEN conn ELSE tcpClient.conn

ConfigOf(cl) == IF cl = "c" THEN config ELSE tcpClient.config

\* isConnected: c.conn != nil
isConnected(cl) == ConnOf(cl) # 0

\* a client that dials whether or not it holds a connection
NeedDial_Always(cl) == TRUE

\* the first branch of exchangeTCP / Exchange: dial only when not connected
NeedDial(cl) == ~isConnected(cl)

\* dial: the error returned when c.client.Dial fails with err
DialError(err) == Wrap("failed to connect to DNS server", err)

\* a client that closes after every wire exchange, whatever KeepOpen says
CloseAfterWire_IgnoreKeepOpen(v, cfg) == v \in {"Do53", "DoT"}

\* Do53Client.exchangeTCP and DoTClient.Exchange close the connection after
\* the wire exchange unless KeepOpen is set; DoQClient.Exchange has no such step
CloseAfterWire(v, cfg) == v \in {"Do53", "DoT"} /\ ~cfg.KeepOpen

\* a client that takes every wire error for a peer-closed connection
IsEOF_AnyError(err) == err # NilErr

\* errors.Is(err, io.EOF)
IsEOF(err) == ErrorsIs(err, EOF)

\* a retry test that forgets the retried flag
ShouldRetry_NoRetriedCheck(reusedV, retriedV) == reusedV

\* a retry test that forgets the reused flag
ShouldRetry_NoReusedCheck(reusedV, retriedV) == ~retriedV

\* try once to reconnect and resend: if reused && !retried
ShouldRetry(reusedV, retriedV) == reusedV /\ ~retriedV

\* exchangeUDP: resp.Truncated && !c.config.IgnoreTruncation
UseFallback(resp, cfg) == resp.tc /\ ~cfg.IgnoreTruncation

\* Exchange of Do53Client dispatches on config.TCP; DoT and DoQ always run
\* the reconnect loop; DoH runs one HTTP request
Dispatch(v, cfg) ==
    CASE v = "DoH"                -> "doh"
      [] v = "Do53" /\ ~cfg.TCP   -> "udp"
      [] OTHER                    -> "reconnect"

\* a network event of the call: what was done, by which client, on which
\* handle, with which request, the error it ended with and, for a wire
\* exchange that succeeded, the Truncated flag of the response
Event(ev, cl, h, err, tc) ==
    [ev |-> ev, cl |-> cl, h |-> h, req |-> req, err |-> err, tc |-> tc]

\* who holds a handle: 0 is the client c, k > 0 the TCP-mode client that the
\* fallback of the k-th Exchange call built
Owner(cl) == IF cl = "c" THEN 0 ELSE calls

Handle(h, cl) == [h |-> h, by |-> Owner(cl)]

OpenBy(o) == {x.h : x \in {y \in open : y.by = o}}

Count(lg, ev) == Cardinality({i \in DOMAIN lg : lg[i].ev = ev})

NoRun == [len |-> 0, dials |-> 0, retries |-> 0, startHeld |-> FALSE]

\* the run of consecutive successful exchanges after a call that logged lg
\* and returned err
RunAfter(err, lg, retriedV) ==
    IF err # NilErr THEN NoRun
    ELSE [len       |-> run.len + 1,
          dials     |-> run.dials + Count(lg, "dial"),
          retries   |-> run.retries + (IF retriedV THEN 1 ELSE 0),
          startHeld |-> IF run.len = 0 THEN startConn # 0 ELSE run.startHeld]

\* conn' and tcpClient' when the conn field of client cl becomes h
SetConn(cl, h) ==
    /\ conn' = IF cl = "c" THEN h ELSE conn
    /\ tcpClient' = IF cl = "c" THEN tcpClient ELSE [tcpClient EXCEPT !.conn = h]

\* the Exchange call in progress returns (resp, err) having logged lg
Returns(resp, err, lg, retriedV) ==
    /\ pc' = "idle"
    /\ ret' = Return(resp, err)
    /\ log' = lg
    /\ run' = RunAfter(err, lg, retriedV)

TInit ==
    /\ variant \in Variants
    /\ config \in Configs
    /\ conn = 0
    /\ tcpClient = NoClient
    /\ open = {}
    /\ nextConn = 1
    /\ pc = "idle"
    /\ cur = "c"
    /\ reused = FALSE
    /\ retried = FALSE
    /\ req = [Id |-> 7, Q |-> "q1"]
    /\ ret = NoRet
    /\ log = <<>>
    /\ calls = 0
    /\ startConn = 0
    /\ closeErr = NoClose
    /\ run = NoRun

\* the caller invokes c.Exchange(r)
CallExchange(r) ==
    /\ UNCHANGED nonT
    /\ pc = "idle"
    /\ calls < MaxCalls
    /\ calls' = calls + 1
    /\ req' = r
    /\ log' = <<>>
    /\ ret' = NoRet
    /\ reused' = FALSE
    /\ retried' = FALSE
    /\ cur' = "c"
    /\ tcpClient' = NoClient
    /\ startConn' = conn
    /\ pc' = Dispatch(variant, config)
    /\ UNCHANGED <<variant, config, conn, open, nextConn, closeErr, run>>

\* reconnect: the client is connected, so the connection is reused
TcpReuse ==
    /\ UNCHANGED nonT
    /\ pc = "reconnect"
    /\ ~NeedDial(cur)
    /\ reused' = TRUE
    /\ log' = Append(log, Event("reuse", cur, ConnOf(cur), NilErr, FALSE))
    /\ pc' = "exchange"
    /\ UNCHANGED <<variant, config, conn, tcpClient, open, nextConn, cur, retried,
                   req, ret, calls, startConn, closeErr, run>>

\* reconnect: the client is not connected and dials; out is the dial's error
TcpDial(out) ==
    /\ UNCHANGED nonT
    /\ pc = "reconnect"
    /\ NeedDial(cur)
    /\ IF out = NilErr
       THEN /\ SetConn(cur, nextConn)
            /\ open' = open \cup {Handle(nextConn, cur)}
            /\ nextConn' = nextConn + 1
            /\ log' = Append(log, Event("dial", cur, nextConn, NilErr, FALSE))
            /\ pc' = "exchange"
            /\ UNCHANGED <<ret, run>>
       ELSE /\ SetConn(cur, 0)
            /\ Returns(NilResp, DialError(out),
                       Append(log, Event("dial", cur, 0, out, FALSE)), retried)
            /\ UNCHANGED <<open, nextConn>>
    /\ UNCHANGED <<variant, config, cur, reused, retried, req, calls, startConn, closeErr>>

\* ExchangeWithConn on the connection and everything up to the return or the
\* goto reconnect; out is the wire error, tc the response's Truncated flag
TcpWire(out, tc) ==
    /\ UNCHANGED nonT
    /\ pc = "exchange"
    /\ LET h      == ConnOf(cur)
           resp   == Resp(tc, h, Len(log) + 1)
           closed == CloseAfterWire(variant, ConfigOf(cur))
                       \/ (out # NilErr /\ IsEOF(out))
           lg     == Append(log, Event("wire", cur, h, out, out = NilErr /\ tc))
                       \o (IF closed THEN <<Event("close", cur, h, NilErr, FALSE)>> ELSE <<>>)
       IN  /\ SetConn(cur, IF closed THEN 0 ELSE h)
           /\ open' = IF closed THEN open \ {Handle(h, cur)} ELSE open
           /\ IF out = NilErr
              THEN Returns(resp, NilErr, lg, retried) /\ UNCHANGED retried
              ELSE IF ~IsEOF(out)
              THEN Returns(NilResp, out, lg, retried) /\ UNCHANGED retried
              ELSE IF ShouldRetry(reused, retried)
              THEN /\ retried' = TRUE
                   /\ pc' = "reconnect"
                   /\ log' = lg
                   /\ UNCHANGED <<ret, run>>
              ELSE Returns(NilResp, out, lg, retried) /\ UNCHANGED retried
    /\ UNCHANGED <<variant, config, nextConn, cur, reused, req, calls, startConn, closeErr>>

\* exchangeUDP: the client is not connected and dials
UdpDial(out) ==
    /\ UNCHANGED nonT
    /\ pc = "udp"
    /\ NeedDial("c")
    /\ IF out = NilErr
       THEN /\ conn' = nextConn
            /\ open' = open \cup {Handle(nextConn, "c")}
            /\ nextConn' = nextConn + 1
            /\ log' = Append(log, Event("dial", "c", nextConn, NilErr, FALSE))
            /\ UNCHANGED <<pc, ret, run>>
       ELSE /\ conn' = 0
            /\ Returns(NilResp, DialError(out),
                       Append(log, Event("dial", "c", 0, out, FALSE)), FALSE)
            /\ UNCHANGED <<open, nextConn>>
    /\ UNCHANGED <<variant, config, tcpClient, cur, reused, retried, req, calls,
                   startConn, closeErr>>

\* exchangeUDP from ExchangeWithConn on: return the error or the response,
\* or hand the request to a new TCP-mode client
UdpWire(out, tc) ==
    /\ UNCHANGED nonT
    /\ pc = "udp"
    /\ ~NeedDial("c")
    /\ LET resp == Resp(tc, conn, Len(log) + 1)
           lg   == Append(log, Event("wire", "c", conn, out, out = NilErr /\ tc))
       IN  IF out # NilErr
           THEN Returns(NilResp, out, lg, FALSE) /\ UNCHANGED <<config, tcpClient, cur>>
           ELSE IF ~UseFallback(resp, config)
           THEN Returns(resp, NilErr, lg, FALSE) /\ UNCHANGED <<config, tcpClient, cur>>
           ELSE IF Fallback(config).panic
           THEN /\ pc' = "panic"
                /\ log' = lg
                /\ UNCHANGED <<config, tcpClient, cur, ret, run>>
           ELSE /\ config' = Fallback(config).orig
                /\ tcpClient' = [config |-> Fallback(config).copy, conn |-> 0]
                /\ cur' = "tcpClient"
                /\ pc' = "reconnect"
                /\ log' = lg
                /\ UNCHANGED <<ret, run>>
    /\ UNCHANGED <<variant, conn, open, nextConn, reused, retried, req,
                   calls, startConn, closeErr>>

\* outcomes of one DoHClient.Exchange: the step that fails, or "ok"
DoHOutcomes == {"ok", "pack", "newrequest", "do", "read", "status", "unpack"}

\* the error of the failing step, as the library reports it
DoHCause(out) ==
    CASE out = "ok"         -> NilErr
      [] out = "pack"       -> <<"dns: pack">>
      [] out = "newrequest" -> <<"net/http: invalid URL">>
      [] out = "do"         -> <<"i/o timeout">>
      [] out = "read"       -> <<"unexpected EOF">>
      [] out = "status"     -> NilErr
      [] out = "unpack"     -> <<"dns: overflow unpacking">>

\* the error DoHClient.Exchange returns for each outcome
DoHError(out) ==
    CASE out = "ok"         -> NilErr
      [] out = "pack"       -> Wrap("failed to create DNS request", DoHCause(out))
      [] out = "newrequest" -> Wrap("failed to create HTTP request", DoHCause(out))
      [] out = "do"         -> Wrap("error making HTTPS request", DoHCause(out))
      [] out = "read"       -> Wrap("error reading HTTPS response", DoHCause(out))
      [] out = "status"     -> Errorf("HTTPS response returned an error")
      [] out = "unpack"     -> Wrap("failed to unpack DNS response message", DoHCause(out))

\* http.StatusOK
StatusOK == 200

\* HTTP status codes a server answers with
Statuses == {StatusOK, 204, 500}

\* how far one DoHClient.Exchange gets before the environment fails it:
\* Pack, the construction of the HTTP request, client.Do, io.ReadAll, or
\* "response" when the status and the body were received
DoHSteps == {"pack", "newrequest", "do", "read", "response"}

\* a client that unpacks the body before it looks at the status
DoHOutcome_BodyFirst(step, status, parses) ==
    IF step # "response" THEN step
    ELSE IF parses THEN "ok"
    ELSE IF status # StatusOK THEN "status"
    ELSE "unpack"

\* the outcome of DoHClient.Exchange: the step the environment failed, or,
\* with a response received, the status test and then Unpack of the body
DoHOutcome(step, status, parses) ==
    IF step # "response" THEN step
    ELSE IF status # StatusOK THEN "status"
    ELSE IF ~parses THEN "unpack"
    ELSE "ok"

\* DoHClient.Exchange: one HTTP request, no connection kept
DoHExchange(step, status, parses, tc) ==
    /\ UNCHANGED nonT
    /\ pc = "doh"
    /\ req' = [req EXCEPT !.Id = 0]
    /\ LET out  == DoHOutcome(step, status, parses)
           sent == step \notin {"pack", "newrequest"}
           lg   == IF sent
                   THEN Append(log, [ev |-> "http", cl |-> "c", h |-> 0,
                                     req |-> req', err |-> DoHCause(out),
                                     tc |-> out = "ok" /\ tc,
                                     status |-> IF step \in {"read", "response"}
                                                THEN status ELSE 0,
                                     parses |-> step = "response" /\ parses])
                   ELSE log
       IN  Returns(IF out = "ok" THEN Resp(tc, 0, Len(log) + 1) ELSE NilResp,
                   DoHError(out), lg, FALSE)
    /\ UNCHANGED <<variant, config, conn, tcpClient, open, nextConn, cur, reused,
                   retried, calls, startConn, closeErr>>

\* a Close that closes the connection and forgets to clear the conn field
CallClose_KeepsConn(out) ==
    /\ UNCHANGED nonT
    /\ pc = "idle"
    /\ IF variant = "DoH" \/ conn = 0
       THEN out = NilErr /\ UNCHANGED <<conn, open>>
       ELSE conn' = conn /\ open' = open \ {Handle(conn, "c")}
    /\ closeErr' = out
    /\ run' = NoRun
    /\ UNCHANGED <<variant, config, tcpClient, nextConn, pc, cur, reused, retried,
                   req, ret, log, calls, startConn>>

\* the caller invokes c.Close(); out is what c.conn.Close() returns when
\* there is a connection to close
CallClose(out) ==
    /\ UNCHANGED nonT
    /\ pc = "idle"
    /\ IF variant = "DoH" \/ conn = 0
       THEN out = NilErr /\ UNCHANGED <<conn, open>>
       ELSE conn' = 0 /\ open' = open \ {Handle(conn, "c")}
    /\ closeErr' = out
    /\ run' = NoRun
    /\ UNCHANGED <<variant, config, tcpClient, nextConn, pc, cur, reused, retried,
                   req, ret, log, calls, startConn>>

TNext ==
    \/ \E r \in Reqs : CallExchange(r)
    \/ TcpReuse
    \/ \E out \in {NilErr} \cup DialErrs : TcpDial(out)
    \/ \E out \in {NilErr} \cup WireErrs, tc \in BOOLEAN : TcpWire(out, tc)
    \/ \E out \in {NilErr} \cup DialErrs : UdpDial(out)
    \/ \E out \in {NilErr} \cup WireErrs, tc \in BOOLEAN : UdpWire(out, tc)
    \/ \E step \in DoHSteps, status \in Statuses, parses \in BOOLEAN, tc \in BOOLEAN :
           DoHExchange(step, status, parses, tc)
    \/ \E out \in {NilErr} \cup CloseErrs : CallClose(out)

\* no call of OrderCNAMEs yet
NoOrder ==
    [a |-> <<>>, n |-> 0, i |-> 0, flag |-> FALSE, done |-> FALSE, panic |-> FALSE]

\* OrderCNAMEs is not running
OIdle ==
    /\ oin = <<>>
    /\ ost = NoOrder
    /\ opc = "idle"

\* the two clients side by side are not built
PIdle ==
    /\ pair = <<>>
    /\ script = <<>>

\* the scan is not started
WIdle ==
    /\ wk = <<>>
    /\ wg = 0
    /\ inch = [buf |-> <<>>, closed |-> FALSE, fed |-> 0]
    /\ outch = [buf |-> <<>>, closed |-> FALSE]
    /\ cpc = "idle"
    /\ mpc = "idle"
    /\ stdout = <<>>

\* no aggregation function has returned
NoValue == [value |-> <<>>, err |-> <<"no call has returned">>]

\* no aggregation function is called
AIdle ==
    /\ afn = "none"
    /\ aarg = ""
    /\ apc = "idle"
    /\ aloc = <<>>
    /\ alog = <<>>
    /\ aret = NoValue

\* New is not called
NIdle ==
    /\ ncfg = [UDPBufSize |-> 0, MaxCNAMEs |-> 0, HTTPEndpoint |-> "",
               HTTPUseGET |-> FALSE, TLS |-> FALSE]
    /\ nret = NoNew
    /\ npc = "idle"

\* the resolution engine before any query
EIdle ==
    /\ maxCNAMEs = 0
    /\ callerReq = NoReq
    /\ ereq = NoReq
    /\ aliased = FALSE
    /\ iter = 0
    /\ epc = "start"
    /\ eresp = NoResponse
    /\ cnames = <<>>
    /\ eret = NoOutcome
    /\ trips = 0
    /\ hist = <<>>
    /\ chased = NoChase

Init == TInit /\ EIdle /\ OIdle /\ NIdle /\ AIdle /\ WIdle /\ PIdle

Spec == Init /\ [][TNext]_vars

-----------------------------------------------------------------------------
(* Properties of the transport clients *)

\* the client runs the reconnect loop: Do53 over TCP, DoT or DoQ
TcpLike == variant \in {"DoT", "DoQ"} \/ (variant = "Do53" /\ config.TCP)

\* the error is, or wraps, the end-of-file error of a connection that the
\* peer closed
PeerClosed(err) == \E i \in DOMAIN err : err[i] = "EOF"

\* dial and wire events are the network attempts of a call
IsAttempt(e) == e.ev \in {"dial", "wire", "http"}

\* no dial and no wire exchange follows event i of the log
NothingAfter(i) == \A k \in DOMAIN log : k > i => ~IsAttempt(log[k])

\* dials made after a wire exchange of the same call
Redials == {i \in DOMAIN log : log[i].ev = "dial"
                /\ \E j \in 1..(i - 1) : log[j].ev = "wire"}

\* the call began on a held connection and its first wire exchange ended
\* with a peer-closed error
ReusedThenEOF ==
    /\ TcpLike
    /\ Len(log) >= 2
    /\ log[1].ev = "reuse"
    /\ log[2].ev = "wire" /\ PeerClosed(log[2].err)

\* C1: on Do53/TCP, DoT and DoQ, when a call starts on a reused connection
\* and the wire exchange fails with a peer-closed error, the client closes
\* that connection, dials once and (the dial succeeding) resends the same
\* request exactly once on the new connection; a second peer-closed error is
\* returned to the caller with no further dial or resend.
Thm_C1_RetryOnceOnReusedEOF ==
    ReusedThenEOF =>
        /\ Len(log) >= 3
        /\ log[3].ev = "close" /\ log[3].h = log[1].h
        /\ log[1].h \notin OpenBy(0)
        /\ Count(log, "dial") <= 1
        /\ Count(log, "wire") <= 2
        /\ Len(log) = 3 => pc = "reconnect"
        /\ Len(log) >= 4 => log[4].ev = "dial"
        /\ (Len(log) >= 4 /\ log[4].err # NilErr) =>
               /\ pc = "idle" /\ Len(log) = 4
               /\ ret.err = DialError(log[4].err)
        /\ (Len(log) = 4 /\ log[4].err = NilErr) => pc = "exchange"
        /\ Len(log) >= 5 =>
               /\ log[5].ev = "wire"
               /\ log[5].req = log[2].req
               /\ log[5].h = log[4].h /\ log[5].h # log[1].h
               /\ pc = "idle"
               /\ NothingAfter(5)
               /\ ret.err = log[5].err
        /\ pc = "idle" => Count(log, "dial") = 1

\* C1 witness: both wire exchanges ended peer-closed and the call returned
Wit_C1_SecondEOFSurfaced ==
    /\ ReusedThenEOF
    /\ pc = "idle"
    /\ Len(log) >= 5
    /\ PeerClosed(log[5].err)
    /\ ret.err = log[5].err

\* C2: one Exchange call on Do53/TCP, DoT or DoQ makes at most one reconnect
\* and at most two wire exchanges; it reconnects only if it began on a
\* connection held from an earlier call; a connection dialed inside the call
\* that fails with a peer-closed error is not retried.
Thm_C2_AtMostOneReconnect ==
    TcpLike =>
        /\ Count(log, "wire") <= 2
        /\ Cardinality(Redials) <= 1
        /\ Redials # {} =>
               /\ startConn # 0
               /\ log[1].ev = "reuse" /\ log[1].h = startConn
        /\ \A i \in DOMAIN log :
               ( /\ log[i].ev = "wire" /\ PeerClosed(log[i].err)
                 /\ \E j \in 1..(i - 1) : log[j].ev = "dial" /\ log[j].h = log[i].h )
               => /\ NothingAfter(i)
                  /\ pc = "idle"
                  /\ ret.err = log[i].err

\* C2 witness: the call dialed, the new connection was closed by the peer,
\* and the call returned that error without a second attempt
Wit_C2_FreshEOFNotRetried ==
    /\ TcpLike
    /\ pc = "idle"
    /\ Len(log) >= 2
    /\ log[1].ev = "dial" /\ log[1].err = NilErr
    /\ log[2].ev = "wire" /\ PeerClosed(log[2].err)
    /\ Count(log, "wire") = 1
    /\ ret.err = log[2].err

\* the UDP exchange of the call got a truncated response
UdpTruncated ==
    \E i \in DOMAIN log : log[i].ev = "wire" /\ log[i].cl = "c" /\ log[i].tc

\* events of the TCP-mode client of the fallback
FallbackEvents == {i \in DOMAIN log : log[i].cl = "tcpClient"}

\* the result of the fallback client's exchange, read off its last attempt
FallbackOutcome ==
    LET last == CHOOSE i \in FallbackEvents :
                    IsAttempt(log[i])
                    /\ \A k \in FallbackEvents : IsAttempt(log[k]) => k <= i
        e    == log[last]
    IN  IF e.ev = "dial" THEN Return(NilResp, DialError(e.err))
        ELSE IF e.err # NilErr THEN Return(NilResp, e.err)
        ELSE Return(Resp(e.tc, e.h, last), NilErr)

\* C3: on Do53/UDP, Exchange falls back to TCP if and only if the UDP
\* response is truncated and IgnoreTruncation is false; the same request then
\* goes through a new TCP-mode client and the caller observes exactly the
\* outcome of that TCP exchange, for every validated Config, including one
\* with no client-subnet address.
Cex_C3_TruncationFallsBackToTCP ==
    (variant = "Do53" /\ ~config.TCP) =>
        /\ pc # "panic"
        /\ pc = "idle" =>
              /\ (FallbackEvents # {}) <=> (UdpTruncated /\ ~config.IgnoreTruncation)
              /\ FallbackEvents # {} =>
                    /\ ret = FallbackOutcome
                    /\ \A i \in FallbackEvents : log[i].req = log[1].req

\* C4 as stated: on every transport a dial failure or a wire failure other
\* than peer-closed is returned to the caller as the same error value, and
\* the call makes no retry and no redial.
Cex_C4_ErrorsReturnedUnchanged ==
    \A i \in DOMAIN log :
        ( /\ IsAttempt(log[i]) /\ log[i].err # NilErr
          /\ (log[i].ev = "wire" /\ TcpLike) => ~PeerClosed(log[i].err) )
        => /\ pc = "idle"
           /\ NothingAfter(i)
           /\ ret.err = log[i].err

\* C4 amended: a wire failure other than peer-closed on Do53, DoT and DoQ is
\* returned as the same error value; a dial failure is returned wrapped in
\* "failed to connect to DNS server" and a DoH failure wrapped in the message
\* of the step that failed, the original error being the wrapped cause; in
\* every case the call returns at once, with no retry and no redial.
Thm_C4_ErrorsReturnedWithoutRetry ==
    \A i \in DOMAIN log :
        ( /\ IsAttempt(log[i]) /\ log[i].err # NilErr
          /\ (log[i].ev = "wire" /\ TcpLike) => ~PeerClosed(log[i].err) )
        => /\ pc = "idle"
           /\ NothingAfter(i)
           /\ log[i].ev = "wire" => ret.err = log[i].err
           /\ log[i].ev = "dial" =>
                  ret.err = <<"failed to connect to DNS server">> \o log[i].err
           /\ log[i].ev = "http" =>
                  Len(ret.err) = Len(log[i].err) + 1 /\ Tail(ret.err) = log[i].err

\* C4 witness: a reused connection timed out and the call returned the
\* timeout without redialing
Wit_C4_TimeoutOnReusedNotRetried ==
    /\ TcpLike
    /\ pc = "idle"
    /\ Len(log) = 2
    /\ log[1].ev = "reuse"
    /\ log[2].ev = "wire" /\ log[2].err = <<"read tcp", "i/o timeout">>
    /\ ret.err = log[2].err

\* the clients whose exchange honours KeepOpen: Do53 over TCP and DoT
KeepOpenClient == variant = "DoT" \/ (variant = "Do53" /\ config.TCP)

\* what C5 says of every run of consecutive successful exchanges, but for
\* the number of dials
KeepOpenDecides ==
    /\ (~config.KeepOpen /\ pc = "idle") => conn = 0
    /\ (~config.KeepOpen /\ Len(log) >= 1) => log[1].ev = "dial"
    /\ (config.KeepOpen /\ run.len >= 1 /\ pc = "idle") => conn \in OpenBy(0)
    /\ (config.KeepOpen /\ startConn # 0 /\ Len(log) >= 1) =>
           log[1].ev = "reuse" /\ log[1].h = startConn

\* C5 as stated: on Do53/TCP and DoT, with KeepOpen false no connection is
\* held once a call has returned and every call dials; with KeepOpen true the
\* connection of a successful exchange stays open and the next call reuses
\* it, so a run of consecutive successful exchanges uses exactly one dial.
Cex_C5_KeepOpenOneDialPerRun ==
    KeepOpenClient =>
        /\ KeepOpenDecides
        /\ (config.KeepOpen /\ run.len >= 1) => run.dials = 1

\* C5 amended: as stated, except that a run of consecutive successful
\* exchanges uses one dial if it began with no connection held and none if
\* it began on a held one, plus one dial for every exchange of the run that
\* reconnected after a peer-closed error.
Thm_C5_KeepOpenDialsPerRun ==
    KeepOpenClient =>
        /\ KeepOpenDecides
        /\ (config.KeepOpen /\ run.len >= 1) =>
               run.dials = (IF run.startHeld THEN 0 ELSE 1) + run.retries

\* C5 witness: with KeepOpen, two successful exchanges in a row on one dial
Wit_C5_TwoExchangesOneDial ==
    /\ KeepOpenClient
    /\ config.KeepOpen
    /\ pc = "idle"
    /\ run.len = 2 /\ run.dials = 1
    /\ log[1].ev = "reuse"

\* C6: in every reachable state a transport client holds at most one open
\* connection handle: every handle a client dialed and has not closed is the
\* one in its conn field, so it dials only when it holds none and never
\* overwrites a held handle without closing it.
Thm_C6_AtMostOneHandle ==
    /\ OpenBy(0) = (IF conn = 0 THEN {} ELSE {conn})
    /\ \A k \in 1..calls : Cardinality(OpenBy(k)) <= 1
    /\ tcpClient # NoClient =>
           OpenBy(calls) = (IF tcpClient.conn = 0 THEN {} ELSE {tcpClient.conn})

\* C6 witness: the client has dialed twice and holds the second handle
Wit_C6_SecondHandleHeld ==
    /\ conn = 2
    /\ OpenBy(0) = {2}
    /\ calls >= 2

-----------------------------------------------------------------------------
(* msgutil.OrderCNAMEs.  Go indexes the slice from 0; At(a, k) is a[k]. *)

At(a, k) == a[k + 1]

\* the loop "for j := i; j > 0; j-- { a[j] = a[j-1] }; a[0] = tmp"
MoveToFront(a, i) ==
    [k \in 1..Len(a) |->
        IF k = 1 THEN At(a, i) ELSE IF k <= i + 1 THEN a[k - 1] ELSE a[k]]

\* a[n], a[i] = a[i], a[n]
Swap(a, n, i) ==
    [k \in 1..Len(a) |->
        IF k = n + 1 THEN At(a, i) ELSE IF k = i + 1 THEN At(a, n) ELSE a[k]]

\* OrderCNAMEs runs as a machine that takes one step per iteration of the
\* inner loop and one per pass of the outer loop "for flag { ... }": the
\* slice, the number sorted n, the index i, the flag, whether the loops
\* have ended, and whether an index went out of range
OrderStart(a) ==
    [a |-> a, n |-> 1, i |-> 1, flag |-> FALSE, done |-> FALSE, panic |-> FALSE]

\* one iteration of "for i := n; i < len(a); i++", or the end of a pass.
\* The index is out of range when a[n-1] is read or a[n] is swapped with n
\* beyond the last index.
OrderStep(st) ==
    IF st.done THEN st
    ELSE IF st.i >= Len(st.a)
    THEN IF st.flag
         THEN [st EXCEPT !.i = st.n, !.flag = FALSE]
         ELSE [st EXCEPT !.done = TRUE]
    ELSE LET a      == st.a
             i      == st.i
             first  == At(a, i).Target = At(a, 0).Name
             a1     == IF first THEN MoveToFront(a, i) ELSE a
             n1     == IF first THEN st.n + 1 ELSE st.n
             second == At(a1, n1 - 1).Target = At(a1, i).Name
         IN  IF n1 - 1 >= Len(a) \/ (second /\ n1 >= Len(a))
             THEN [st EXCEPT !.a = a1, !.n = n1, !.done = TRUE, !.panic = TRUE]
             ELSE [a     |-> IF second THEN Swap(a1, n1, i) ELSE a1,
                   n     |-> IF second THEN n1 + 1 ELSE n1,
                   i     |-> i + 1,
                   flag  |-> st.flag \/ first \/ second,
                   done  |-> FALSE,
                   panic |-> FALSE]

\* steps within which the loops end: a pass makes fewer than len(a)
\* iterations, and every pass but the last sorts one more record
OrderSteps(a) == (Len(a) + 1) * (Len(a) + 1)

\* OrderCNAMEs(a): the slice as it is left, the value returned, and whether
\* the call panicked with an index out of range
OrderCNAMEs(a) ==
    IF Len(a) = 0
    THEN [a |-> a, ok |-> TRUE, panic |-> FALSE, ended |-> TRUE]
    ELSE LET after[k \in 0..OrderSteps(a)] ==
                 IF k = 0 THEN OrderStart(a) ELSE OrderStep(after[k - 1])
             r == after[OrderSteps(a)]
         IN  [a |-> r.a, ok |-> ~r.panic /\ r.n = Len(a), panic |-> r.panic,
              ended |-> r.done]

\* OrderCNAMEs(a) begins on the slice a; an empty slice is sorted
BeginOrder(a) ==
    /\ oin' = a
    /\ IF Len(a) = 0
       THEN ost' = [NoOrder EXCEPT !.done = TRUE] /\ opc' = "returned"
       ELSE ost' = OrderStart(a) /\ opc' = "run"

\* one iteration of the inner loop, or the end of a pass: the call goes
\* on, returns n == len(a), or panics on an index out of range
OrderIterate ==
    /\ opc = "run"
    /\ ost' = OrderStep(ost)
    /\ opc' = IF ost'.panic THEN "panic"
              ELSE IF ost'.done THEN "returned" ELSE "run"
    /\ UNCHANGED oin
    /\ UNCHANGED nonO

\* what OrderCNAMEs returned
OrderReturned == ost.n = Len(ost.a)

\* names of the records OrderCNAMEs is given on its own
ONames == Names \cup {"www.example.com."}

\* the slices OrderCNAMEs is given on its own
OrderInputs ==
    SeqsUpTo([Name : ONames, Rrtype : {"CNAME"}, Target : ONames], MaxChain)

\* the caller invokes OrderCNAMEs on a slice
CallOrderCNAMEs ==
    /\ opc = "idle"
    /\ \E a \in OrderInputs : BeginOrder(a)
    /\ UNCHANGED nonO

ONext ==
    \/ CallOrderCNAMEs
    \/ OrderIterate

\* msgutil.CollectRRs[*dns.CNAME]
CollectCNAMEs(rrs) == SelectSeq(rrs, LAMBDA rr : rr.Rrtype = "CNAME")

-----------------------------------------------------------------------------
(* The resolution engine: Exchange and Lookup (and Query, the variant that *)
(* returns a DNSError).                                                    *)

\* the records of the answer whose type is qtype: ans, were the scan not
\* cut short by a direct hit
AnsOf(resp, qtype) == SelectSeq(resp.Answer, LAMBDA rr : rr.Rrtype = qtype)

\* a variant that takes the response's rcode for success whatever it is
RcodeSuccess_Unchecked(resp) == TRUE

\* resp.Rcode == dns.RcodeSuccess
RcodeSuccess(resp) == resp.Rcode = "NOERROR"

\* a variant in which a record of the requested type is a direct hit whoever
\* owns it
DirectHit_AnyOwner(resp, name, qtype) ==
    \E k \in DOMAIN resp.Answer : resp.Answer[k].Rrtype = qtype

\* a record of the requested type is owned by the queried name
DirectHit(resp, name, qtype) ==
    \E k \in DOMAIN resp.Answer :
        resp.Answer[k].Rrtype = qtype /\ resp.Answer[k].Name = name

\* a variant in which the head of the chain is not compared with the question
HeadMatches_Unchecked(cn, name) == TRUE

\* the head of the chain must match the name we're searching for
HeadMatches(cn, name) == cn[1].Name = name

\* a variant in which the last CNAME is taken for an alias of an answer even
\* when the response has no record of the requested type
AliasHit_Always(cn, ans) == TRUE

\* a variant in which the last CNAME is never taken for an alias of an answer
AliasHit_Never(cn, ans) == FALSE

\* the last CNAME of the chain is an alias for one of the records of the
\* requested type
AliasHit(cn, ans) == \E k \in DOMAIN ans : cn[Len(cn)].Target = ans[k].Name

\* one iteration of the loop of Exchange on the response resp to a question
\* for (name, qtype): how the iteration ends, and the ordered cnames
Iteration(resp, name, qtype) ==
    LET ans == AnsOf(resp, qtype)
        cn  == CollectCNAMEs(resp.Answer)
        ord == OrderCNAMEs(cn)
        end(kind, c) == [kind |-> kind, cnames |-> c]
    IN  IF ~RcodeSuccess(resp) THEN end("rcode", <<>>)
        ELSE IF DirectHit(resp, name, qtype) THEN end("ok", <<>>)
        ELSE IF Len(cn) = 0 THEN end("missing", cn)
        ELSE IF ord.panic THEN end("panic", ord.a)
        ELSE IF ~ord.ok THEN end("invalidchain", ord.a)
        ELSE IF ~HeadMatches(ord.a, name) THEN end("invalidchain", ord.a)
        ELSE IF AliasHit(ord.a, ans) THEN end("ok", ord.a)
        ELSE IF Len(ans) > 0 THEN end("mismatch", ord.a)
        ELSE end("follow", ord.a)

Outcome(kind, resp, err) == [kind |-> kind, resp |-> resp, err |-> err]

\* the sentinel errors of error.go, nil for success
Sentinel(kind) ==
    CASE kind = "ok"           -> NilErr
      [] kind = "rcode"        -> <<"dnsclient: response rcode is not success">>
      [] kind = "missing"      -> <<"dnsclient: response is missing an answer">>
      [] kind = "mismatch"     -> <<"dnsclient: response has an answer that matches neither the qname nor one of its aliases">>
      [] kind = "invalidchain" -> <<"dnsclient: response contains an invalid CNAME chain">>
      [] kind = "maxcnames"    -> <<"dnsclient: query followed max number of CNAMEs">>

\* what Exchange returns for an outcome: (resp, err)
ExchangeResult(o) ==
    IF o.kind = "neterr" THEN [resp |-> NoResponse, err |-> o.err]
    ELSE [resp |-> o.resp, err |-> Sentinel(o.kind)]

\* the reasons of DNSError
Reason(kind) ==
    CASE kind = "rcode"        -> "DNSErrRcodeNotSuccess"
      [] kind = "missing"      -> "DNSErrMissingAnswer"
      [] kind = "mismatch"     -> "DNSErrInvalidAnswer"
      [] kind = "invalidchain" -> "DNSErrInvalidCNAMEChain"
      [] kind = "maxcnames"    -> "DNSErrMaxCNAMEs"
      [] kind = "badformat"    -> "DNSErrBadFormatAnswer"

\* what Query returns for an outcome: (resp, err), err a DNSError that
\* carries the response
QueryResult(o) ==
    IF o.kind = "neterr" THEN [resp |-> NoResponse, err |-> o.err, errResponse |-> NoResponse]
    ELSE IF o.kind = "ok" THEN [resp |-> o.resp, err |-> NilErr, errResponse |-> NoResponse]
    ELSE [resp |-> NoResponse, err |-> <<Reason(o.kind)>>, errResponse |-> o.resp]

\* netip.AddrFromSlice: a slice of 4 or 16 bytes is an address
AddrFromSlice(b) == [addr |-> b, ok |-> Len(b) \in {4, 16}]

\* lookupA, given what Lookup returned: the A records of the answer
lookupA(r) ==
    IF r.err # NilErr
    THEN [as |-> <<>>, err |-> r.err, errResponse |-> r.errResponse]
    ELSE [as  |-> SelectSeq(r.resp.Answer, LAMBDA rr : rr.Rrtype = "A"),
          err |-> NilErr, errResponse |-> NoResponse]

\* getA, given what Lookup returned: the addresses of the A records whose
\* data is an address, or DNSErrBadFormatAnswer with a nil response when
\* there is none
getA(r) ==
    LET l     == lookupA(r)
        good  == SelectSeq(l.as, LAMBDA rr : AddrFromSlice(rr.A).ok)
        addrs == [k \in DOMAIN good |-> AddrFromSlice(good[k].A).addr]
    IN  IF l.err # NilErr
        THEN [addrs |-> <<>>, err |-> l.err, errResponse |-> l.errResponse]
        ELSE IF Len(addrs) = 0
        THEN [addrs |-> <<>>, err |-> <<Reason("badformat")>>,
              errResponse |-> NoResponse]
        ELSE [addrs |-> addrs, err |-> NilErr, errResponse |-> NoResponse]

\* a loop that stops one iteration early
LoopGoesOn_Exclusive(i, max) == i < max

\* the loop goes on while i <= config.MaxCNAMEs
LoopGoesOn(i, max) == i <= max

\* Exchange copies the request only when it may follow CNAMEs
CopiesRequest(max) == max > 0

EInit ==
    /\ maxCNAMEs \in 0..MaxHops
    /\ callerReq = NoReq
    /\ ereq = NoReq
    /\ aliased = FALSE
    /\ iter = 0
    /\ epc = "start"
    /\ eresp = NoResponse
    /\ cnames = <<>>
    /\ eret = NoOutcome
    /\ trips = 0
    /\ hist = <<>>
    /\ chased = NoChase

\* the transport clients before any call, with a default Config
TIdle ==
    /\ variant = "Do53"
    /\ config = [TCP |-> FALSE, KeepOpen |-> FALSE, IgnoreTruncation |-> FALSE,
                 ClientSubnet |-> "zero"]
    /\ conn = 0
    /\ tcpClient = NoClient
    /\ open = {}
    /\ nextConn = 1
    /\ pc = "idle"
    /\ cur = "c"
    /\ reused = FALSE
    /\ retried = FALSE
    /\ req = [Id |-> 7, Q |-> "q1"]
    /\ ret = NoRet
    /\ log = <<>>
    /\ calls = 0
    /\ startConn = 0
    /\ closeErr = NoClose
    /\ run = NoRun

\* every arrangement of the elements of the sequence s
Orderings(s) ==
    {[k \in 1..Len(s) |-> s[f[k]]] : f \in Permutations(1..Len(s))}

\* element i's target is element i+1's owner
IsChain(t) == \A k \in 1..(Len(t) - 1) : t[k].Target = t[k + 1].Name

\* the arrangements of the CNAME records cn that are a chain whose first
\* owner is name
ValidChainsFrom(cn, name) ==
    IF Len(cn) = 0 THEN {}
    ELSE {t \in Orderings(cn) : IsChain(t) /\ t[1].Name = name}

\* a positive response: a success rcode and a record of the requested type
\* owned by the queried name, or by the final target of a valid CNAME chain
\* of the response that starts at the queried name
Positive(resp, name, qtype) ==
    /\ resp.Rcode = "NOERROR"
    /\ \/ DirectHit(resp, name, qtype)
       \/ \E t \in ValidChainsFrom(CollectCNAMEs(resp.Answer), name) :
              \E k \in DOMAIN resp.Answer :
                  /\ resp.Answer[k].Rrtype = qtype
                  /\ resp.Answer[k].Name = t[Len(t)].Target

\* a response that carries only a valid CNAME chain from the queried name
ChainOnly(resp, name, qtype) ==
    /\ resp.Rcode = "NOERROR"
    /\ Len(AnsOf(resp, qtype)) = 0
    /\ ValidChainsFrom(CollectCNAMEs(resp.Answer), name) # {}

\* the final targets of the valid CNAME chains of resp that start at name
FinalTargets(resp, name) ==
    {t[Len(t)].Target : t \in ValidChainsFrom(CollectCNAMEs(resp.Answer), name)}

\* what a response to the question (name, qtype) carries
Carries(resp, name, qtype) ==
    IF Positive(resp, name, qtype) THEN "answer"
    ELSE IF ChainOnly(resp, name, qtype) THEN "chain"
    ELSE "other"

\* Lookup(c, name, qtype): NewMsg builds the request, and Exchange starts
\* on it, on a copy if MaxCNAMEs > 0
Lookup(name, qtype) ==
    /\ epc = "start"
    /\ UNCHANGED nonE
    /\ callerReq' = [Name |-> Fqdn(name), Qtype |-> qtype, Id |-> FirstId]
    /\ ereq' = callerReq'
    /\ aliased' = ~CopiesRequest(maxCNAMEs)
    /\ iter' = 0
    /\ epc' = IF LoopGoesOn(0, maxCNAMEs) THEN "exchange" ELSE "bug"
    /\ UNCHANGED <<maxCNAMEs, eresp, cnames, eret, trips, hist, chased>>

\* c.Exchange(req) fails: the error goes to the caller
RoundTripFails(err) ==
    /\ epc = "exchange"
    /\ UNCHANGED nonE
    /\ trips' = trips + 1
    /\ epc' = "done"
    /\ eret' = Outcome("neterr", NoResponse, err)
    /\ UNCHANGED <<maxCNAMEs, callerReq, ereq, aliased, iter, eresp, cnames, hist,
                   chased>>

\* a variant that repeats the query on the first CNAME of the chain
AfterIteration_FirstTarget(it, resp) ==
    LET q == [Name  |-> Fqdn(it.cnames[1].Target),
              Qtype |-> ereq.Qtype, Id |-> NextId(ereq.Id)]
    IN  IF it.kind = "panic"
        THEN /\ epc' = "panic"
             /\ eresp' = resp
             /\ cnames' = it.cnames
             /\ UNCHANGED <<callerReq, ereq, iter, eret>>
        ELSE IF it.kind # "follow"
        THEN /\ epc' = "done"
             /\ eret' = Outcome(it.kind, resp, NilErr)
             /\ eresp' = resp
             /\ cnames' = it.cnames
             /\ UNCHANGED <<callerReq, ereq, iter>>
        ELSE /\ ereq' = q
             /\ callerReq' = IF aliased THEN q ELSE callerReq
             /\ iter' = iter + 1
             /\ IF LoopGoesOn(iter + 1, maxCNAMEs)
                THEN /\ epc' = "exchange"
                     /\ eresp' = NoResponse
                     /\ cnames' = <<>>
                     /\ UNCHANGED eret
                ELSE /\ eresp' = resp
                     /\ cnames' = it.cnames
                     /\ IF Len(it.cnames) > 0
                        THEN /\ epc' = "done"
                             /\ eret' = Outcome("maxcnames", resp, NilErr)
                        ELSE /\ epc' = "bug"
                             /\ eret' = Outcome("missing", resp, NilErr)

\* the engine after an iteration that ended as it did on resp: the call
\* panics, returns, or sets the next question; after the last iteration
\* the code below the loop runs.  resp and cnames are assigned again before
\* they are read in the next iteration, so they are dropped when the loop
\* goes on.
AfterIteration(it, resp) ==
    LET q == [Name  |-> Fqdn(it.cnames[Len(it.cnames)].Target),
              Qtype |-> ereq.Qtype, Id |-> NextId(ereq.Id)]
    IN  IF it.kind = "panic"
        THEN /\ epc' = "panic"
             /\ eresp' = resp
             /\ cnames' = it.cnames
             /\ UNCHANGED <<callerReq, ereq, iter, eret>>
        ELSE IF it.kind # "follow"
        THEN /\ epc' = "done"
             /\ eret' = Outcome(it.kind, resp, NilErr)
             /\ eresp' = resp
             /\ cnames' = it.cnames
             /\ UNCHANGED <<callerReq, ereq, iter>>
        ELSE /\ ereq' = q
             /\ callerReq' = IF aliased THEN q ELSE callerReq
             /\ iter' = iter + 1
             /\ IF LoopGoesOn(iter + 1, maxCNAMEs)
                THEN /\ epc' = "exchange"
                     /\ eresp' = NoResponse
                     /\ cnames' = <<>>
                     /\ UNCHANGED eret
                ELSE /\ eresp' = resp
                     /\ cnames' = it.cnames
                     /\ IF Len(it.cnames) > 0
                        THEN /\ epc' = "done"
                             /\ eret' = Outcome("maxcnames", resp, NilErr)
                        ELSE /\ epc' = "bug"
                             /\ eret' = Outcome("missing", resp, NilErr)

\* one iteration of the loop of Exchange in which c.Exchange(req) returns
\* a response
RoundTrip ==
    /\ epc = "exchange"
    /\ \E resp \in Responses :
           /\ trips' = trips + 1
           /\ hist' = Append(hist, Carries(resp, ereq.Name, ereq.Qtype))
           /\ chased' = [Name |-> ereq.Name, Qtype |-> ereq.Qtype,
                         Finals |-> FinalTargets(resp, ereq.Name)]
           /\ AfterIteration(Iteration(resp, ereq.Name, ereq.Qtype), resp)
    /\ UNCHANGED <<maxCNAMEs, aliased>>
    /\ UNCHANGED nonE

\* errors the transport may return to the engine
NetErrs == { <<"read udp", "i/o timeout">> }

\* names a caller may look up
LookupNames == {"example.com", "example.com."}

ENext ==
    \/ \E name \in LookupNames, qtype \in Qtypes : Lookup(name, qtype)
    \/ \E err \in NetErrs : RoundTripFails(err)
    \/ RoundTrip

InitE == EInit /\ TIdle /\ OIdle /\ NIdle /\ AIdle /\ WIdle /\ PIdle

SpecE == InitE /\ [][ENext]_vars

InitO == OIdle /\ EIdle /\ TIdle /\ NIdle /\ AIdle /\ WIdle /\ PIdle

SpecO == InitO /\ [][ONext]_vars

-----------------------------------------------------------------------------
(* Properties of the resolution engine *)

\* the call of Exchange is over: it returned, or it panicked
Stopped == epc \in {"done", "panic", "bug"}

\* Exchange returned (resp, err)
Returned == epc \in {"done", "bug"}

\* the last response received is a positive response to the question asked
LastPositive == hist # <<>> /\ hist[Len(hist)] = "answer"

\* every response of the sequence h carried only a valid CNAME chain
AllChain(h) == \A k \in DOMAIN h : h[k] = "chain"

\* all of h but its last element
Front(h) == SubSeq(h, 1, Len(h) - 1)

\* C7 as stated: once the call of Exchange is over it has returned a nil
\* error if and only if the last response received has a success rcode and
\* a record of the requested type owned by the queried name or by the final
\* target of a valid CNAME chain of that response that starts at the
\* queried name
Cex_C7_NilErrorIffPositive ==
    Stopped =>
        IF Returned
        THEN (ExchangeResult(eret).err = NilErr) <=> LastPositive
        ELSE ~LastPositive

\* C8 as stated: k responses that carry only a valid CNAME chain and then a
\* response with a matching record, k <= MaxCNAMEs, end in success after
\* exactly k+1 round trips; fewer than MaxCNAMEs+1 chain-only responses
\* leave the query going on; MaxCNAMEs+1 of them end in ErrMaxCNAMEs
Cex_C8_HopsWithinBudgetSucceed ==
    /\ ( /\ hist # <<>>
         /\ hist[Len(hist)] = "answer"
         /\ AllChain(Front(hist))
         /\ Len(hist) - 1 <= maxCNAMEs )
            => /\ Returned
               /\ eret.kind = "ok"
               /\ trips = Len(hist)
    /\ (hist # <<>> /\ AllChain(hist) /\ Len(hist) <= maxCNAMEs)
            => (epc = "exchange" \/ (Returned /\ eret.kind = "neterr"))
    /\ (AllChain(hist) /\ Len(hist) = maxCNAMEs + 1)
            => (Returned /\ eret.kind = "maxcnames")

\* C9 as stated: whatever the server sends, a query makes at most
\* MaxCNAMEs+1 transport exchanges and then returns (the call never ends
\* otherwise than by returning); with MaxCNAMEs = 0 a query that returned
\* made exactly one round trip
Cex_C9_BoundedTripsThenReturns ==
    /\ trips <= maxCNAMEs + 1
    /\ Stopped => Returned
    /\ (Returned /\ maxCNAMEs = 0) => trips = 1

\* the scenario of C10: type A asked for example.com with MaxCNAMEs = 0, and
\* the call returned on a success response whose answer is one CNAME record
\* owned by alias.example.com
AliasOnlyScenario ==
    /\ maxCNAMEs = 0
    /\ Returned
    /\ eret.kind # "neterr"
    /\ ereq.Name = "example.com."
    /\ ereq.Qtype = "A"
    /\ eresp.Rcode = "NOERROR"
    /\ Len(eresp.Answer) = 1
    /\ eresp.Answer[1].Rrtype = "CNAME"
    /\ eresp.Answer[1].Name = "alias.example.com."

AnswerHasType(t) ==
    \E k \in DOMAIN eresp.Answer : eresp.Answer[k].Rrtype = t

\* the last response has a record of type t owned by name
AnswerOwnedBy(name, t) ==
    \E k \in DOMAIN eresp.Answer :
        eresp.Answer[k].Rrtype = t /\ eresp.Answer[k].Name = name

\* Exchange returned after it received a response
ReturnedOnResponse == Returned /\ eret.kind # "neterr"

\* Exchange and Query both failed with the failure of kind k
FailedWith(k) ==
    /\ ReturnedOnResponse
    /\ ExchangeResult(eret).err = Sentinel(k)
    /\ QueryResult(eret).err = <<Reason(k)>>

\* C11 as stated: the engine fails with MissingAnswer exactly when the
\* response has a success rcode, no record of the requested type and no
\* CNAME record
Cex_C11_MissingIffNoTypeNoCNAME ==
    ReturnedOnResponse =>
        (FailedWith("missing") <=>
            /\ eresp.Rcode = "NOERROR"
            /\ ~AnswerHasType(ereq.Qtype)
            /\ ~AnswerHasType("CNAME"))

\* C11 amended: the engine fails with MissingAnswer exactly when the
\* response has a success rcode, no record of the requested type owned by
\* the queried name and no CNAME record; records of the requested type that
\* others own do not prevent it
Thm_C11_MissingIffNoHitNoCNAME ==
    ReturnedOnResponse =>
        (FailedWith("missing") <=>
            /\ eresp.Rcode = "NOERROR"
            /\ ~AnswerOwnedBy(ereq.Name, ereq.Qtype)
            /\ ~AnswerHasType("CNAME"))

\* C11 witness: MissingAnswer on a response that holds an address record
\* of another owner
Wit_C11_MissingDespiteTypeRecord ==
    /\ FailedWith("missing")
    /\ ereq.Qtype = "A"
    /\ AnswerHasType("A")

\* the last response has an rcode other than success
RcodeNotSuccess == eresp.Rcode \notin {"NOERROR", "none"}

\* C12: whenever a response has an rcode other than success the engine
\* has returned RcodeNotSuccess with that response attached, whatever the
\* answer section holds and whatever iteration it is in; that round trip
\* is the last one of the query
Thm_C12_RcodeNotSuccessAtOnce ==
    RcodeNotSuccess =>
        /\ FailedWith("rcode")
        /\ ExchangeResult(eret).resp = eresp
        /\ QueryResult(eret).errResponse = eresp
        /\ trips = Len(hist)
        /\ trips = iter + 1

\* C12 witness: after one alias hop, a failure rcode on a response that
\* holds a record of the requested type owned by the queried name
Wit_C12_RcodeFailureAfterHop ==
    /\ RcodeNotSuccess
    /\ Returned
    /\ iter = 1
    /\ AnswerOwnedBy(ereq.Name, ereq.Qtype)

\* the errors of the DNS-specific failures, as DNSError reasons
DNSErrors ==
    {<<Reason(k)>> : k \in {"rcode", "missing", "mismatch", "invalidchain",
                            "maxcnames", "badformat"}}

\* C13 as stated: every DNS-specific failure produced after a response was
\* received carries that response, from Query and from getA alike
Cex_C13_FailuresCarryResponse ==
    ReturnedOnResponse =>
        /\ QueryResult(eret).err \in DNSErrors
               => QueryResult(eret).errResponse = eresp
        /\ (callerReq.Qtype = "A" /\ getA(QueryResult(eret)).err \in DNSErrors)
               => getA(QueryResult(eret)).errResponse = eresp

\* the call is over on a success response that has no record of the
\* requested type owned by the queried name and has CNAME records.  After
\* ErrMaxCNAMEs the question is no longer the one the response answered;
\* there the CNAME records were ordered into a chain from the queried name.
NoHitButCNAMEs ==
    /\ Stopped
    /\ eret.kind \notin {"neterr", "maxcnames"}
    /\ eresp.Rcode = "NOERROR"
    /\ ~AnswerOwnedBy(ereq.Name, ereq.Qtype)
    /\ AnswerHasType("CNAME")

\* C14 as stated: on such a response the engine fails with
\* InvalidCNAMEChain if and only if the CNAME records cannot be ordered into
\* a chain whose first owner is the queried name
Cex_C14_InvalidChainIffUnorderable ==
    NoHitButCNAMEs =>
        (FailedWith("invalidchain") <=>
            ValidChainsFrom(CollectCNAMEs(eresp.Answer), ereq.Name) = {})

UnaliasedAnswer ==
    /\ eresp.Rcode = "NOERROR"
    /\ AnswerHasType(ereq.Qtype)
    /\ ~AnswerOwnedBy(ereq.Name, ereq.Qtype)
    /\ AnswerHasType("CNAME")
    /\ LET o == OrderCNAMEs(CollectCNAMEs(eresp.Answer))
       IN  /\ o.ok
           /\ o.a[1].Name = ereq.Name
           /\ ~AnswerOwnedBy(o.a[Len(o.a)].Target, ereq.Qtype)

Thm_C19_ConfigNeverChanges ==
    [][ /\ config' = config
        /\ (pc = "idle" /\ pc' # "idle" /\ FallbackEvents # {}) => pc' = "udp"
      ]_vars

\* C19 witness: an exchange over UDP fell back to TCP and returned the TCP
\* response, and the client's Config still does not select TCP
Wit_C19_FallbackDoneConfigStillUDP ==
    /\ pc = "idle"
    /\ variant = "Do53"
    /\ FallbackEvents # {}
    /\ ret.err = NilErr
    /\ ~config.TCP
    /\ calls >= 2

\* the HTTP requests the call in progress, or the last one, has made
HTTPEvents == {i \in DOMAIN log : log[i].ev = "http"}

\* C20: a DoH Exchange returns a response only when the HTTP status is 200
\* and the body parses as a DNS message; with any other status it returns an
\* error and no response, whether or not the body parses; it makes at most
\* one HTTP request, and the client never holds a connection, before or
\* after Close
Thm_C20_DoHOnly200AndParsedBody ==
    variant = "DoH" =>
        /\ conn = 0 /\ open = {} /\ tcpClient = NoClient
        /\ ~retried /\ ~reused
        /\ Cardinality(HTTPEvents) <= 1
        /\ (pc = "idle" /\ calls > 0) =>
              /\ ret.err = NilErr <=> ret.resp # NilResp
              /\ ret.resp # NilResp =>
                    \E i \in HTTPEvents : log[i].status = 200 /\ log[i].parses
              /\ \A i \in HTTPEvents :
                    log[i].status \notin {0, 200} =>
                        ret.err # NilErr /\ ret.resp = NilResp

\* C20 witness: the server answered 500 with a body that parses as a DNS
\* message and the call returned an error
Wit_C20_ParsableBodyWithStatus500 ==
    /\ variant = "DoH"
    /\ pc = "idle"
    /\ \E i \in HTTPEvents : log[i].status = 500 /\ log[i].parses
    /\ ret.err # NilErr
    /\ ret.resp = NilResp

-----------------------------------------------------------------------------
(* New: construction of a client from a Config *)

\* a caller holds a Config and has not called New yet
NInit ==
    /\ ncfg \in NewConfigs
    /\ nret = NoNew
    /\ npc = "start"

\* the caller invokes New(config)
CallNew ==
    /\ npc = "start"
    /\ nret' = New(ncfg)
    /\ npc' = "returned"
    /\ UNCHANGED ncfg
    /\ UNCHANGED nonN

NNext == CallNew

InitN == NInit /\ TIdle /\ EIdle /\ OIdle /\ AIdle /\ WIdle /\ PIdle

SpecN == InitN /\ [][NNext]_vars

\* C18: New returns an error and no client if and only if UDPBufSize is
\* outside [0, 65535], or MaxCNAMEs is outside [0, 10], or HTTPUseGET is
\* set with an empty HTTPEndpoint, or a non-empty HTTPEndpoint comes with
\* TLS; otherwise it returns one client, DoH if an HTTP endpoint is set,
\* else DoT if TLS is set, else Do53, and that client holds no connection
Thm_C18_NewValidatesAndPicksVariant ==
    npc = "returned" =>
        LET invalid ==
                \/ ncfg.UDPBufSize \notin 0..65535
                \/ ncfg.MaxCNAMEs \notin 0..10
                \/ (ncfg.HTTPUseGET /\ ncfg.HTTPEndpoint = "")
                \/ (ncfg.HTTPEndpoint # "" /\ ncfg.TLS)
        IN  IF invalid
            THEN nret.err # NilErr /\ nret.client = NilClient
            ELSE /\ nret.err = NilErr
                 /\ nret.client.conn = 0
                 /\ nret.client.variant =
                        IF ncfg.HTTPEndpoint # "" THEN "DoH"
                        ELSE IF ncfg.TLS THEN "DoT" ELSE "Do53"

\* C18 witness: New has refused a Config that is within both ranges and
\* names an HTTP endpoint together with TLS
Wit_C18_DoHWithTLSRefused ==
    /\ npc = "returned"
    /\ ncfg.UDPBufSize = 4096
    /\ ncfg.MaxCNAMEs = 10
    /\ ncfg.HTTPEndpoint # ""
    /\ ncfg.TLS
    /\ nret.err # NilErr

-----------------------------------------------------------------------------
(* Properties of OrderCNAMEs *)

\* the call of OrderCNAMEs is over: it returned, or it panicked
OrderOver == opc \in {"returned", "panic"}

\* the records of the slice a can be arranged into a chain
Chainable(a) == \E t \in Orderings(a) : IsChain(t)

\* the slice b holds the records of the slice a, each as often
SameRecords(a, b) ==
    /\ Len(a) = Len(b)
    /\ \A k \in DOMAIN a :
           Cardinality({j \in DOMAIN a : a[j] = a[k]})
               = Cardinality({j \in DOMAIN b : b[j] = a[k]})

\* C16 as stated: given any permutation of a chain, OrderCNAMEs returns
\* true and leaves the slice arranged as a chain
Cex_C16_ChainPermutationIsOrdered ==
    (OrderOver /\ Chainable(oin)) =>
        /\ opc = "returned"
        /\ OrderReturned
        /\ IsChain(ost.a)

\* C17 as stated: when the records cannot all be arranged into one chain
\* OrderCNAMEs returns false; it returns true only if the slice it leaves
\* is a chain; an empty or single-element slice returns true
Cex_C17_UnchainableReturnsFalse ==
    OrderOver =>
        /\ ~Chainable(oin) => (opc = "returned" /\ ~OrderReturned)
        /\ (opc = "returned" /\ OrderReturned) => IsChain(ost.a)
        /\ Len(oin) <= 1 => (opc = "returned" /\ OrderReturned)

-----------------------------------------------------------------------------
(* The aggregation functions: what a server answers to one Lookup *)

\* a question: the name and the type Lookup is called with
Question(name, qtype) == [Name |-> name, Qtype |-> qtype]

\* the data of the records a server answers with, by type
PTRTargets == {"one.example.com.", "two.example.com."}

\* the data of AAAA records: 2001:db8::1, and data that is no address
Addr6Data == {<<32, 1, 13, 184, 0, 0, 0, 0, 0, 0, 0, 0, 0, 0, 0, 1>>, <<>>}

\* the name servers NS and SOA records name
NSNames == {"ns1.example.com.", "ns2.example.com."}

SRVData ==
    {[Priority |-> 0, Weight |-> 5, Port |-> 22, Target |-> "host.example.com."],
     [Priority |-> 10, Weight |-> 0, Port |-> 443, Target |-> "www.example.com."]}

TXTData == {<<"path=/">>, <<"txtvers=1", "note=">>}

\* the records of the asked type owned by the asked name
RecordsOf(q) ==
    CASE q.Qtype = "PTR" ->
            {[Name |-> q.Name, Rrtype |-> "PTR", Ptr |-> t] : t \in PTRTargets}
      [] q.Qtype = "SRV" ->
            {[Name |-> q.Name, Rrtype |-> "SRV", Priority |-> d.Priority,
              Weight |-> d.Weight, Port |-> d.Port, Target |-> d.Target] :
             d \in SRVData}
      [] q.Qtype = "TXT" ->
            {[Name |-> q.Name, Rrtype |-> "TXT", Txt |-> d] : d \in TXTData}
      [] q.Qtype = "A" ->
            {[Name |-> q.Name, Rrtype |-> "A", Target |-> "", A |-> d] : d \in AddrData}
      [] q.Qtype = "AAAA" ->
            {[Name |-> q.Name, Rrtype |-> "AAAA", AAAA |-> d] : d \in Addr6Data}
      [] q.Qtype = "NS" ->
            {[Name |-> q.Name, Rrtype |-> "NS", Ns |-> n] : n \in NSNames}

\* a CNAME record that sends the asked name elsewhere
ChainToElsewhere(q) ==
    << [Name |-> q.Name, Rrtype |-> "CNAME", Target |-> "alias.example.com."] >>

\* a set of CNAME records that OrderCNAMEs indexes out of range
UnorderableCNAMEs ==
    << [Name |-> "target.example.com.", Rrtype |-> "CNAME", Target |-> "target.example.com."],
       [Name |-> "alias.example.com.", Rrtype |-> "CNAME", Target |-> "target.example.com."] >>

\* a record owned by the asked name whose type is not the asked type
OtherTypeRecord(q) ==
    IF q.Qtype = "TXT"
    THEN [Name |-> q.Name, Rrtype |-> "PTR", Ptr |-> "one.example.com."]
    ELSE [Name |-> q.Name, Rrtype |-> "TXT", Txt |-> <<"path=/">>]

\* the answer sections a server sends to the question q: none, one or two
\* records of the asked type, CNAME records only, the alias and a record of
\* the asked type owned by the alias, or a record of another type
AnswersTo(q) ==
    {<<>>} \cup {<<r>> : r \in RecordsOf(q)}
           \cup {<<r, t>> : r \in RecordsOf(q), t \in RecordsOf(q)}
           \cup {ChainToElsewhere(q), UnorderableCNAMEs}
           \cup {ChainToElsewhere(q) \o <<r>> :
                     r \in RecordsOf(Question("alias.example.com.", q.Qtype))}
           \cup {<<OtherTypeRecord(q)>>}

\* what the transport hands to Lookup for the question q: an error, or a
\* response
RepliesTo(q) ==
    {[neterr |-> e, resp |-> NoResponse] : e \in NetErrs}
    \cup {[neterr |-> NilErr, resp |-> [Rcode |-> "NOERROR", Answer |-> a]] :
             a \in AnswersTo(q)}
    \cup {[neterr |-> NilErr, resp |-> [Rcode |-> "NXDOMAIN", Answer |-> <<>>]]}

\* Lookup(c, name, qtype) of a client whose MaxCNAMEs is 0, given the reply
\* to its one request: what Query returns, and panic when OrderCNAMEs panics
LookupReturns(kind, reply) ==
    IF kind = "panic"
    THEN [panic |-> TRUE, resp |-> NoResponse, err |-> NilErr,
          errResponse |-> NoResponse]
    ELSE [panic |-> FALSE] @@ QueryResult(Outcome(kind, reply.resp, reply.neterr))

\* how the one iteration of Query ends: with MaxCNAMEs 0 a chain to follow
\* ends the loop with DNSErrMaxCNAMEs
LookupKind(itkind, reply) ==
    IF reply.neterr # NilErr THEN "neterr"
    ELSE IF itkind = "follow" THEN "maxcnames"
    ELSE itkind

LookupResult(reply, q) ==
    LookupReturns(LookupKind(Iteration(reply.resp, q.Name, q.Qtype).kind, reply), reply)

\* msgutil.CollectRRs[T]: the records of type T
CollectRRs(rrs, T) == SelectSeq(rrs, LAMBDA rr : rr.Rrtype = T)

\* lookupPTR, given what Lookup returned
lookupPTR(r) ==
    IF r.err # NilErr THEN [ptrs |-> <<>>, err |-> r.err]
    ELSE [ptrs |-> CollectRRs(r.resp.Answer, "PTR"), err |-> NilErr]

\* getPTR: the targets of all the PTR records
getPTR(r) ==
    LET l == lookupPTR(r)
    IN  IF l.err # NilErr THEN [names |-> <<>>, err |-> l.err]
        ELSE [names |-> [k \in DOMAIN l.ptrs |-> l.ptrs[k].Ptr], err |-> NilErr]

\* a variant of getOnePTR that returns the target of the last PTR record
getOnePTR_Last(r) ==
    LET l == lookupPTR(r)
    IN  IF l.err # NilErr THEN [names |-> <<>>, err |-> l.err]
        ELSE [names |-> << l.ptrs[Len(l.ptrs)].Ptr >>, err |-> NilErr]

\* getOnePTR (through lookupOnePTR): the target of the first PTR record,
\* here as a sequence of one name
getOnePTR(r) ==
    LET l == lookupPTR(r)
    IN  IF l.err # NilErr THEN [names |-> <<>>, err |-> l.err]
        ELSE [names |-> << l.ptrs[1].Ptr >>, err |-> NilErr]

\* errors.Join of a non-empty list of errors
Join(errs) == <<"errors.Join", errs>>

\* the elements of a sequence
Range(f) == {f[k] : k \in DOMAIN f}

\* set.Items: the elements of the set in some order
Items(S) == {f \in [1..Cardinality(S) -> S] : Range(f) = S}

\* an entry of alog: the question asked, whether Lookup panicked, the error
\* and the answer section it returned
LookupEvent(q, r) ==
    [q |-> q, panic |-> r.panic, err |-> r.err, lerr |-> r.err,
     answer |-> IF r.panic \/ r.err # NilErr THEN <<>> ELSE r.resp.Answer]

\* element 0 of the collected records of type T is taken after a Lookup
\* that returned no error and no record of type T: index out of range
IndexPanics(r, T) ==
    ~r.panic /\ r.err = NilErr /\ Len(CollectRRs(r.resp.Answer, T)) = 0

-----------------------------------------------------------------------------
(* GetAllServiceBrowserDomains *)

\* the domains a caller enumerates
SdDomains == {"example.com."}

\* the name of the browsing-domain query at position pos of the function
BrowserQuestion(pos, domain) == Question(pos \o "._dns-sd._udp." \o domain, "PTR")

\* the three queries in the order the function makes them
NextBrowserQuery(pos) ==
    CASE pos = "b" -> "db" [] pos = "db" -> "lb" [] pos = "lb" -> "end"

\* the caller invokes GetAllServiceBrowserDomains(c, domain)
CallGetAllServiceBrowserDomains ==
    /\ apc = "idle"
    /\ afn' = "GetAllServiceBrowserDomains"
    /\ aarg' \in SdDomains
    /\ aloc' = [errs |-> <<>>, domainSet |-> {}]
    /\ apc' = "b"
    /\ UNCHANGED <<alog, aret>>
    /\ UNCHANGED nonA

\* the end of GetAllServiceBrowserDomains with the locals loc
BrowserDomainsEnd(loc) ==
    IF Cardinality(loc.domainSet) = 0
    THEN IF Len(loc.errs) = 0
         THEN apc' = "bug" /\ UNCHANGED aret
         ELSE apc' = "returned" /\ aret' = [value |-> <<>>, err |-> Join(loc.errs)]
    ELSE /\ apc' = "returned"
         /\ \E items \in Items(loc.domainSet) : aret' = [value |-> items, err |-> NilErr]

\* the locals after one browsing-domain query returned (names, err)
AfterBrowserQuery(loc, got) ==
    IF got.err # NilErr
    THEN [loc EXCEPT !.errs = Append(@, got.err)]
    ELSE [loc EXCEPT !.domainSet = @ \cup Range(got.names)]

\* GetServiceBrowserDomains returns all the names, the two others one
BrowserNames(pos, r) == IF pos = "b" THEN getPTR(r) ELSE getOnePTR(r)

\* what the function does once the Lookup of the question q returned r
BrowserQueryDone(q, r) ==
    /\ alog' = Append(alog, LookupEvent(q, r))
    /\ IF r.panic \/ (apc # "b" /\ IndexPanics(r, "PTR"))
       THEN apc' = "panic" /\ UNCHANGED <<aloc, aret>>
       ELSE /\ aloc' = AfterBrowserQuery(aloc, BrowserNames(apc, r))
            /\ IF NextBrowserQuery(apc) # "end"
               THEN apc' = NextBrowserQuery(apc) /\ UNCHANGED aret
               ELSE BrowserDomainsEnd(aloc')

\* one of GetServiceBrowserDomains, GetDefaultServiceBrowserDomain and
\* GetLegacyServiceBrowserDomain, and what the function does with its result
BrowserQuery ==
    /\ afn = "GetAllServiceBrowserDomains"
    /\ apc \in {"b", "db", "lb"}
    /\ \E reply \in RepliesTo(BrowserQuestion(apc, aarg)) :
          BrowserQueryDone(BrowserQuestion(apc, aarg),
                           LookupResult(reply, BrowserQuestion(apc, aarg)))
    /\ UNCHANGED <<afn, aarg>>
    /\ UNCHANGED nonA

-----------------------------------------------------------------------------
(* GetServiceInstanceInfo *)

\* the service instances a caller asks about
SdInstances == {"web._http._tcp.example.com."}

\* lookupOneSRV, given what Lookup returned: the first SRV record
lookupOneSRV(r) ==
    IF r.err # NilErr THEN [srv |-> <<>>, err |-> r.err]
    ELSE [srv |-> CollectRRs(r.resp.Answer, "SRV")[1], err |-> NilErr]

\* getOneTXT (through lookupOneTXT), given what Lookup returned: the
\* strings of the first TXT record
getOneTXT(r) ==
    IF r.err # NilErr THEN [txt |-> <<>>, err |-> r.err]
    ELSE [txt |-> CollectRRs(r.resp.Answer, "TXT")[1].Txt, err |-> NilErr]

\* a ServiceInstanceInfo with the fields of srv and a nil Txt
NewInfo(srv) ==
    [Priority |-> srv.Priority, Weight |-> srv.Weight, Port |-> srv.Port,
     Target |-> srv.Target, Txt |-> <<>>]

\* the caller invokes GetServiceInstanceInfo(c, domain)
CallGetServiceInstanceInfo ==
    /\ apc = "idle"
    /\ afn' = "GetServiceInstanceInfo"
    /\ aarg' \in SdInstances
    /\ aloc' = [info |-> <<>>]
    /\ apc' = "srv"
    /\ UNCHANGED <<alog, aret>>
    /\ UNCHANGED nonA

\* what the function does once the SRV lookup returned r
SRVLookupDone(q, r) ==
    /\ alog' = Append(alog, LookupEvent(q, r))
    /\ IF r.panic \/ IndexPanics(r, "SRV")
       THEN apc' = "panic" /\ UNCHANGED <<aloc, aret>>
       ELSE IF lookupOneSRV(r).err # NilErr
       THEN /\ apc' = "returned"
            /\ aret' = [value |-> <<>>, err |-> lookupOneSRV(r).err]
            /\ UNCHANGED aloc
       ELSE /\ apc' = "txt"
            /\ aloc' = [info |-> NewInfo(lookupOneSRV(r).srv)]
            /\ UNCHANGED aret

\* SRV must succeed
SRVLookup ==
    /\ afn = "GetServiceInstanceInfo"
    /\ apc = "srv"
    /\ \E reply \in RepliesTo(Question(aarg, "SRV")) :
          SRVLookupDone(Question(aarg, "SRV"),
                        LookupResult(reply, Question(aarg, "SRV")))
    /\ UNCHANGED <<afn, aarg>>
    /\ UNCHANGED nonA

\* what the function does once the TXT lookup returned r
TXTLookupDone(q, r) ==
    /\ alog' = Append(alog, LookupEvent(q, r))
    /\ IF r.panic \/ IndexPanics(r, "TXT")
       THEN apc' = "panic" /\ UNCHANGED <<aloc, aret>>
       ELSE /\ aloc' = IF getOneTXT(r).err = NilErr
                       THEN [info |-> [aloc.info EXCEPT !.Txt = getOneTXT(r).txt]]
                       ELSE aloc
            /\ apc' = "returned"
            /\ aret' = [value |-> aloc'.info, err |-> NilErr]

\* not an error if TXT doesn't succeed
TXTLookup ==
    /\ afn = "GetServiceInstanceInfo"
    /\ apc = "txt"
    /\ \E reply \in RepliesTo(Question(aarg, "TXT")) :
          TXTLookupDone(Question(aarg, "TXT"),
                        LookupResult(reply, Question(aarg, "TXT")))
    /\ UNCHANGED <<afn, aarg>>
    /\ UNCHANGED nonA

-----------------------------------------------------------------------------
(* GetIPs and GetNameServers *)

\* getAAAA, given what Lookup returned: the addresses of the AAAA records
\* whose data is an address, or DNSErrBadFormatAnswer when there is none
getAAAA(r) ==
    IF r.err # NilErr
    THEN [addrs |-> <<>>, err |-> r.err, errResponse |-> r.errResponse]
    ELSE IF Len(SelectSeq(CollectRRs(r.resp.Answer, "AAAA"),
                          LAMBDA rr : AddrFromSlice(rr.AAAA).ok)) = 0
    THEN [addrs |-> <<>>, err |-> <<Reason("badformat")>>, errResponse |-> NoResponse]
    ELSE [addrs |-> [k \in DOMAIN SelectSeq(CollectRRs(r.resp.Answer, "AAAA"),
                                            LAMBDA rr : AddrFromSlice(rr.AAAA).ok) |->
                       SelectSeq(CollectRRs(r.resp.Answer, "AAAA"),
                                 LAMBDA rr : AddrFromSlice(rr.AAAA).ok)[k].AAAA],
          err |-> NilErr, errResponse |-> NoResponse]

\* a variant that returns the addresses it found, even none, with no error
GetIPn_NoFormatCheck(qtype, r) ==
    IF r.err # NilErr
    THEN [addrs |-> <<>>, err |-> r.err, errResponse |-> r.errResponse]
    ELSE [addrs |-> IF qtype = "A" THEN getA(r).addrs ELSE getAAAA(r).addrs,
          err |-> NilErr, errResponse |-> NoResponse]

\* GetIP4s and GetIP6s, given what Lookup returned
GetIPn(qtype, r) == IF qtype = "A" THEN getA(r) ELSE getAAAA(r)

\* an entry of alog for an address lookup: as LookupEvent, with the error
\* GetIP4s or GetIP6s returned
AddrEvent(q, r, got) ==
    [q |-> q, panic |-> r.panic, err |-> got.err, lerr |-> r.err,
     answer |-> IF r.panic \/ r.err # NilErr THEN <<>> ELSE r.resp.Answer]

\* the names a caller resolves
IPNames == {"example.com."}

\* the locals of GetIPs at its start
IPLocals == [addrs |-> <<>>, errs |-> <<>>]

\* the caller invokes GetIPs(c, name)
CallGetIPs ==
    /\ apc = "idle"
    /\ afn' = "GetIPs"
    /\ aarg' \in IPNames
    /\ aloc' = [name |-> aarg', ip |-> IPLocals]
    /\ apc' = "a"
    /\ UNCHANGED <<alog, aret>>
    /\ UNCHANGED nonA

\* the locals of GetIPs after GetIP4s or GetIP6s returned (addrs, err)
AfterGetIPn(ip, got) ==
    IF got.err # NilErr
    THEN [ip EXCEPT !.errs = Append(@, got.err)]
    ELSE [ip EXCEPT !.addrs = @ \o got.addrs]

\* what GetIPs returns with the locals ip; bug when it reaches mu.BUG
GetIPsReturns(ip) ==
    IF Len(ip.addrs) > 0 THEN [bug |-> FALSE, value |-> ip.addrs, err |-> NilErr]
    ELSE IF Len(ip.errs) > 0 THEN [bug |-> FALSE, value |-> <<>>, err |-> Join(ip.errs)]
    ELSE [bug |-> TRUE, value |-> <<>>, err |-> NilErr]

\* the locals of GetNameServers after GetIPs returned for the name server
\* loc.name
AfterGetIPs(loc, got) ==
    IF got.err # NilErr
    THEN [loc EXCEPT !.addrErrs = Append(@, got.err)]
    ELSE [loc EXCEPT !.results = Append(@, [Name |-> loc.name, Addrs |-> got.value])]

\* what GetNameServers returns after its loop; bug when it reaches mu.BUG
GetNameServersReturns(loc) ==
    IF Len(loc.results) > 0 THEN [bug |-> FALSE, value |-> loc.results, err |-> NilErr]
    ELSE IF Len(loc.addrErrs) > 0
    THEN [bug |-> FALSE, value |-> <<>>, err |-> Join(loc.addrErrs)]
    ELSE [bug |-> TRUE, value |-> <<>>, err |-> NilErr]

\* the call ends with what the function returns, or at mu.BUG
Finish(out) ==
    IF out.bug THEN apc' = "bug" /\ UNCHANGED aret
    ELSE apc' = "returned" /\ aret' = [value |-> out.value, err |-> out.err]

\* GetNameServers goes on after GetIPs returned got for name server loc.name:
\* the next name server, or the end of the loop
NextNameServer(loc, got) ==
    IF got.bug THEN apc' = "bug" /\ aloc' = loc /\ UNCHANGED aret
    ELSE IF Len(loc.todo) > 0
    THEN /\ aloc' = [AfterGetIPs(loc, got) EXCEPT !.name = Head(loc.todo),
                                                  !.todo = Tail(loc.todo),
                                                  !.ip = IPLocals]
         /\ apc' = "a"
         /\ UNCHANGED aret
    ELSE /\ aloc' = AfterGetIPs(loc, got)
         /\ Finish(GetNameServersReturns(aloc'))

\* what GetIPs does once GetIP4s or GetIP6s returned got
AddrLookupDone(q, r, got) ==
    /\ alog' = Append(alog, AddrEvent(q, r, got))
    /\ IF r.panic
       THEN apc' = "panic" /\ UNCHANGED <<aloc, aret>>
       ELSE IF apc = "a"
       THEN /\ aloc' = [aloc EXCEPT !.ip = AfterGetIPn(@, got)]
            /\ apc' = "aaaa"
            /\ UNCHANGED aret
       ELSE IF afn = "GetIPs"
       THEN /\ aloc' = [aloc EXCEPT !.ip = AfterGetIPn(@, got)]
            /\ Finish(GetIPsReturns(aloc'.ip))
       ELSE NextNameServer([aloc EXCEPT !.ip = AfterGetIPn(@, got)],
                           GetIPsReturns(AfterGetIPn(aloc.ip, got)))

\* GetIP4s, then GetIP6s, of GetIPs, called by the caller or by
\* GetNameServers for the name server aloc.name
AddrLookup ==
    /\ afn \in {"GetIPs", "GetNameServers"}
    /\ apc \in {"a", "aaaa"}
    /\ \E reply \in RepliesTo(Question(aloc.name, IF apc = "a" THEN "A" ELSE "AAAA")) :
          AddrLookupDone(Question(aloc.name, IF apc = "a" THEN "A" ELSE "AAAA"),
                         LookupResult(reply, Question(aloc.name, IF apc = "a" THEN "A" ELSE "AAAA")),
                         GetIPn(IF apc = "a" THEN "A" ELSE "AAAA",
                                LookupResult(reply, Question(aloc.name, IF apc = "a" THEN "A" ELSE "AAAA"))))
    /\ UNCHANGED <<afn, aarg>>
    /\ UNCHANGED nonA

\* the domains a caller asks the name servers of
NSDomains == {"example.com."}

\* the authority sections of a response to an NS question: empty, or an SOA
\* record
Authorities ==
    {<<>>, << [Name |-> "example.com.", Rrtype |-> "SOA", Ns |-> "ns1.example.com."] >>}

\* what the transport hands to Lookup for an NS question: as RepliesTo, the
\* response with an authority section
NSRepliesTo(q) ==
    {[neterr |-> reply.neterr,
      resp   |-> [Rcode |-> reply.resp.Rcode, Answer |-> reply.resp.Answer, Ns |-> auth]] :
        reply \in {x \in RepliesTo(q) : x.neterr = NilErr}, auth \in Authorities}
    \cup {x \in RepliesTo(q) : x.neterr # NilErr}

\* err.(*DNSError): the errors Query builds with NewDNSError
IsDNSError(err) ==
    /\ Len(err) = 1
    /\ err[1] \in {Reason(k) : k \in {"rcode", "missing", "mismatch", "invalidchain",
                                       "maxcnames", "badformat"}}

\* the Ns fields of the records
NsOf(rrs) == [k \in DOMAIN rrs |-> rrs[k].Ns]

\* getNS, given what Lookup returned: the names of the NS records of the
\* answer or, when the query got a response with no answer, those of the
\* SOA records of its authority section; bug when it reaches mu.BUG
getNS(r) ==
    IF r.err = NilErr
    THEN [bug |-> FALSE, names |-> NsOf(CollectRRs(r.resp.Answer, "NS")), err |-> NilErr]
    ELSE IF ~IsDNSError(r.err)
    THEN [bug |-> FALSE, names |-> <<>>, err |-> r.err]
    ELSE IF r.err = <<Reason("rcode")>>
    THEN [bug |-> FALSE, names |-> <<>>, err |-> r.err]
    ELSE IF r.errResponse = NoResponse
    THEN [bug |-> TRUE, names |-> <<>>, err |-> NilErr]
    ELSE IF Len(CollectRRs(r.errResponse.Ns, "SOA")) = 0
    THEN [bug |-> FALSE, names |-> <<>>, err |-> r.err]
    ELSE [bug |-> FALSE, names |-> NsOf(CollectRRs(r.errResponse.Ns, "SOA")), err |-> NilErr]

\* an entry of alog for the lookup of getNS: the error getNS returned and
\* the names it found
NSEvent(q, r, got) ==
    [q |-> q, panic |-> r.panic, err |-> got.err, lerr |-> r.err,
     answer |-> IF r.panic \/ r.err # NilErr THEN <<>> ELSE r.resp.Answer,
     names |-> got.names]

\* the caller invokes GetNameServers(c, name)
CallGetNameServers ==
    /\ apc = "idle"
    /\ afn' = "GetNameServers"
    /\ aarg' \in NSDomains
    /\ aloc' = [name |-> "", todo |-> <<>>, ip |-> IPLocals,
                results |-> <<>>, addrErrs |-> <<>>]
    /\ apc' = "ns"
    /\ UNCHANGED <<alog, aret>>
    /\ UNCHANGED nonA

\* what GetNameServers does once getNS returned got
NSLookupDone(q, r, got) ==
    /\ alog' = Append(alog, NSEvent(q, r, got))
    /\ IF r.panic
       THEN apc' = "panic" /\ UNCHANGED <<aloc, aret>>
       ELSE IF got.bug
       THEN apc' = "bug" /\ UNCHANGED <<aloc, aret>>
       ELSE IF got.err # NilErr
       THEN /\ apc' = "returned"
            /\ aret' = [value |-> <<>>, err |-> got.err]
            /\ UNCHANGED aloc
       ELSE IF Len(got.names) = 0
       THEN Finish(GetNameServersReturns(aloc)) /\ UNCHANGED aloc
       ELSE /\ aloc' = [aloc EXCEPT !.name = Head(got.names), !.todo = Tail(got.names)]
            /\ apc' = "a"
            /\ UNCHANGED aret

\* nameServers, err := getNS(c, name)
NSLookup ==
    /\ afn = "GetNameServers"
    /\ apc = "ns"
    /\ \E reply \in NSRepliesTo(Question(aarg, "NS")) :
          NSLookupDone(Question(aarg, "NS"),
                       LookupResult(reply, Question(aarg, "NS")),
                       getNS(LookupResult(reply, Question(aarg, "NS"))))
    /\ UNCHANGED <<afn, aarg>>
    /\ UNCHANGED nonA

ANext ==
    \/ CallGetAllServiceBrowserDomains
    \/ BrowserQuery
    \/ CallGetServiceInstanceInfo
    \/ SRVLookup
    \/ TXTLookup
    \/ CallGetIPs
    \/ AddrLookup
    \/ CallGetNameServers
    \/ NSLookup

InitA == AIdle /\ TIdle /\ EIdle /\ OIdle /\ NIdle /\ WIdle /\ PIdle

SpecA == InitA /\ [][ANext]_vars

-----------------------------------------------------------------------------
(* doServicesMetaQuery: the enumeration of browsing domains, services, *)
(* instances and instance information                                  *)

\* what a call of one of the DNS-SD functions does: it returns names, or it
\* returns an error, or Lookup panics inside it
CallOutcome(names, err, panic) == [names |-> names, err |-> err, panic |-> panic]

LookupFailure == <<Reason("missing")>>

\* GetAllServiceBrowserDomains returns nil and an error, or the browsing
\* domains it found
BrowserOutcomes ==
    {CallOutcome(<<>>, NilErr, TRUE),
     CallOutcome(<<>>, Join(<<LookupFailure, LookupFailure, LookupFailure>>), FALSE),
     CallOutcome(<<"one.example.com.">>, NilErr, FALSE),
     CallOutcome(<<"one.example.com.", "two.example.com.">>, NilErr, FALSE)}

\* GetServices returns through getPTR the targets of all the PTR records:
\* the same service can be advertised under several browsing domains
ServiceOutcomes ==
    {CallOutcome(<<>>, NilErr, TRUE),
     CallOutcome(<<>>, LookupFailure, FALSE),
     CallOutcome(<<"_http._tcp.example.com.">>, NilErr, FALSE),
     CallOutcome(<<"_http._tcp.example.com.", "_ssh._tcp.example.com.">>, NilErr, FALSE)}

\* GetServiceInstances of a service
InstanceOutcomes(service) ==
    {CallOutcome(<<>>, NilErr, TRUE),
     CallOutcome(<<>>, LookupFailure, FALSE),
     CallOutcome(<<"web." \o service>>, NilErr, FALSE),
     CallOutcome(<<"web." \o service, "www." \o service>>, NilErr, FALSE)}

\* GetServiceInstanceInfo returns an info or an error
InfoOutcomes ==
    {CallOutcome(<<>>, NilErr, TRUE),
     CallOutcome(<<>>, LookupFailure, FALSE),
     CallOutcome(<<"info">>, NilErr, FALSE)}

\* an entry of alog: the function called, its argument and what it did
CallEvent(fn, arg, out) ==
    [fn |-> fn, arg |-> arg, names |-> out.names, err |-> out.err, panic |-> out.panic]

\* the domains a caller enumerates the services of
MetaQueryNames == {"example.com."}

\* the caller invokes doServicesMetaQuery(c, qname)
CallDoServicesMetaQuery ==
    /\ apc = "idle"
    /\ afn' = "doServicesMetaQuery"
    /\ aarg' \in MetaQueryNames
    /\ aloc' = [browsers |-> <<>>, serviceSet |-> {}, services |-> <<>>,
                instances |-> <<>>]
    /\ apc' = "browsers"
    /\ UNCHANGED <<alog, aret>>
    /\ UNCHANGED nonA

\* doServicesMetaQuery returns nil
MetaQueryReturns == apc' = "returned" /\ aret' = [value |-> <<>>, err |-> NilErr]

\* browsers, _ := GetAllServiceBrowserDomains(c, qname); with no browsing
\* domain the original domain is the browsing domain
MetaBrowsersDone(out) ==
    /\ alog' = Append(alog, CallEvent("GetAllServiceBrowserDomains", aarg, out))
    /\ IF out.panic
       THEN apc' = "panic" /\ UNCHANGED <<aloc, aret>>
       ELSE /\ aloc' = [aloc EXCEPT !.browsers =
                           IF out.err = NilErr THEN out.names ELSE <<aarg>>]
            /\ apc' = "services"
            /\ UNCHANGED aret

MetaBrowsers ==
    /\ afn = "doServicesMetaQuery"
    /\ apc = "browsers"
    /\ \E out \in BrowserOutcomes : MetaBrowsersDone(out)
    /\ UNCHANGED <<afn, aarg>>
    /\ UNCHANGED nonA

\* the service set after GetServices returned out
AfterGetServices(set, out) ==
    IF out.err # NilErr THEN set ELSE set \cup Range(out.names)

\* one turn of the loop over the browsing domains; after the last turn
\* services := serviceSet.Items(), and the function returns when there is
\* no service
MetaServicesDone(out) ==
    /\ alog' = Append(alog, CallEvent("GetServices", Head(aloc.browsers), out))
    /\ IF out.panic
       THEN apc' = "panic" /\ UNCHANGED <<aloc, aret>>
       ELSE IF Len(aloc.browsers) > 1
       THEN /\ aloc' = [aloc EXCEPT !.browsers = Tail(@),
                                    !.serviceSet = AfterGetServices(@, out)]
            /\ UNCHANGED <<apc, aret>>
       ELSE /\ \E items \in Items(AfterGetServices(aloc.serviceSet, out)) :
                 aloc' = [aloc EXCEPT !.browsers = Tail(@),
                                      !.serviceSet = AfterGetServices(@, out),
                                      !.services = items]
            /\ IF AfterGetServices(aloc.serviceSet, out) = {}
               THEN MetaQueryReturns
               ELSE apc' = "instances" /\ UNCHANGED aret

MetaServices ==
    /\ afn = "doServicesMetaQuery"
    /\ apc = "services"
    /\ \E out \in ServiceOutcomes : MetaServicesDone(out)
    /\ UNCHANGED <<afn, aarg>>
    /\ UNCHANGED nonA

\* where the loops go on with the services and instances left in loc
MetaGoesOn(loc) ==
    /\ aloc' = loc
    /\ IF Len(loc.instances) > 0 THEN apc' = "info" /\ UNCHANGED aret
       ELSE IF Len(loc.services) > 0 THEN apc' = "instances" /\ UNCHANGED aret
       ELSE MetaQueryReturns

\* one turn of the loop over the services
MetaInstancesDone(out) ==
    /\ alog' = Append(alog, CallEvent("GetServiceInstances", Head(aloc.services), out))
    /\ IF out.panic
       THEN apc' = "panic" /\ UNCHANGED <<aloc, aret>>
       ELSE MetaGoesOn([aloc EXCEPT !.services = Tail(@),
                                    !.instances = IF out.err # NilErr THEN <<>>
                                                  ELSE out.names])

MetaInstances ==
    /\ afn = "doServicesMetaQuery"
    /\ apc = "instances"
    /\ \E out \in InstanceOutcomes(Head(aloc.services)) : MetaInstancesDone(out)
    /\ UNCHANGED <<afn, aarg>>
    /\ UNCHANGED nonA

\* one turn of the loop over the instances of a service
MetaInfoDone(out) ==
    /\ alog' = Append(alog, CallEvent("GetServiceInstanceInfo", Head(aloc.instances), out))
    /\ IF out.panic
       THEN apc' = "panic" /\ UNCHANGED <<aloc, aret>>
       ELSE MetaGoesOn([aloc EXCEPT !.instances = Tail(@)])

MetaInfo ==
    /\ afn = "doServicesMetaQuery"
    /\ apc = "info"
    /\ \E out \in InfoOutcomes : MetaInfoDone(out)
    /\ UNCHANGED <<afn, aarg>>
    /\ UNCHANGED nonA

SNext ==
    \/ CallDoServicesMetaQuery
    \/ MetaBrowsers
    \/ MetaServices
    \/ MetaInstances
    \/ MetaInfo

InitS == AIdle /\ TIdle /\ EIdle /\ OIdle /\ NIdle /\ WIdle /\ PIdle

SpecS == InitS /\ [][SNext]_vars

-----------------------------------------------------------------------------
(* The worker-pool scan: main, its workers, the goroutine that closes the *)
(* results channel, and processFile                                      *)

Workers == 1..NumWorkers

\* a worker before go func() runs
NewWorker == [pc |-> "start", conn |-> FALSE, job |-> 0, res |-> "none",
              panicking |-> FALSE]

\* main up to the start of the goroutines: the channels are made with
\* capacity numWorkers and wg.Add(numWorkers) is called
WInit ==
    /\ wk = [w \in Workers |-> NewWorker]
    /\ wg = NumWorkers
    /\ inch = [buf |-> <<>>, closed |-> FALSE, fed |-> 0]
    /\ outch = [buf |-> <<>>, closed |-> FALSE]
    /\ cpc = "wait"
    /\ mpc = "range"
    /\ stdout = <<>>

\* the program runs until main returns or a panic ends it
Running == mpc = "range"

\* what Query does for a worker: it returns a reply or an error, or panics
QueryOutcomes == {"reply", "err", "panic"}

\* c = newClient(opts); err := c.Dial(): on an error the worker returns
WorkerDial(w) ==
    /\ Running
    /\ wk[w].pc = "start"
    /\ \E ok \in BOOLEAN :
          wk' = [wk EXCEPT ![w].conn = ok, ![w].pc = IF ok THEN "recv" ELSE "defer"]
    /\ UNCHANGED <<wg, inch, outch, cpc, mpc, stdout>>
    /\ UNCHANGED nonW

\* for domainname := range inch: take a name, or leave the loop when inch
\* is closed and empty
WorkerRecv(w) ==
    /\ Running
    /\ wk[w].pc = "recv"
    /\ IF Len(inch.buf) > 0
       THEN /\ wk' = [wk EXCEPT ![w].job = Head(inch.buf), ![w].pc = "query"]
            /\ inch' = [inch EXCEPT !.buf = Tail(@)]
       ELSE /\ inch.closed
            /\ wk' = [wk EXCEPT ![w].pc = "defer"]
            /\ UNCHANGED inch
    /\ UNCHANGED <<wg, outch, cpc, mpc, stdout>>
    /\ UNCHANGED nonW

\* reply, err := dnsclient.Query(c, domainname, opts.qtype)
WorkerQuery(w) ==
    /\ Running
    /\ wk[w].pc = "query"
    /\ \E out \in QueryOutcomes :
          wk' = IF out = "panic"
                THEN [wk EXCEPT ![w].panicking = TRUE, ![w].pc = "defer"]
                ELSE [wk EXCEPT ![w].res = out, ![w].pc = "send"]
    /\ UNCHANGED <<wg, inch, outch, cpc, mpc, stdout>>
    /\ UNCHANGED nonW

\* outch <- &ScanRecord{...}: a send on a closed channel panics, a send on a
\* full channel waits
WorkerSend(w) ==
    /\ Running
    /\ wk[w].pc = "send"
    /\ IF outch.closed
       THEN /\ wk' = [wk EXCEPT ![w].pc = "sendpanic"]
            /\ UNCHANGED outch
       ELSE /\ Len(outch.buf) < NumWorkers
            /\ outch' = [outch EXCEPT !.buf = Append(@, [qname |-> wk[w].job,
                                                          res |-> wk[w].res])]
            /\ wk' = [wk EXCEPT ![w].pc = "recv"]
    /\ UNCHANGED <<wg, inch, cpc, mpc, stdout>>
    /\ UNCHANGED nonW

\* the deferred function of a worker, first statement: wg.Done()
WorkerDone(w) ==
    /\ Running
    /\ wk[w].pc = "defer"
    /\ wg' = wg - 1
    /\ wk' = [wk EXCEPT ![w].pc = "close"]
    /\ UNCHANGED <<inch, outch, cpc, mpc, stdout>>
    /\ UNCHANGED nonW

\* the deferred function of a worker, second statement: c is not nil, so
\* c.Close(); then the worker has returned, and a worker that was
\* panicking ends the program
WorkerClose(w) ==
    /\ Running
    /\ wk[w].pc = "close"
    /\ wk' = [wk EXCEPT ![w].conn = FALSE, ![w].pc = "returned"]
    /\ mpc' = IF wk[w].panicking THEN "crashed" ELSE mpc
    /\ UNCHANGED <<wg, inch, outch, cpc, stdout>>
    /\ UNCHANGED nonW

\* a variant that closes outch without waiting for the workers
CloserMayClose_NoWait == TRUE

\* wg.Wait() returns when the counter is zero
CloserMayClose == wg = 0

\* go func() { wg.Wait(); close(outch) }()
Closer ==
    /\ Running
    /\ cpc = "wait"
    /\ CloserMayClose
    /\ outch' = [outch EXCEPT !.closed = TRUE]
    /\ cpc' = "closed"
    /\ UNCHANGED <<wk, wg, inch, mpc, stdout>>
    /\ UNCHANGED nonW

\* processFile: send the next line, or close inch after the last one
ProcessFile ==
    /\ Running
    /\ ~inch.closed
    /\ IF inch.fed < NumLines
       THEN /\ Len(inch.buf) < NumWorkers
            /\ inch' = [inch EXCEPT !.buf = Append(@, inch.fed + 1), !.fed = @ + 1]
       ELSE inch' = [inch EXCEPT !.closed = TRUE]
    /\ UNCHANGED <<wk, wg, outch, cpc, mpc, stdout>>
    /\ UNCHANGED nonW

\* for rec := range outch: take a record and print its line, or return
\* when outch is closed and empty
MainRange ==
    /\ Running
    /\ IF Len(outch.buf) > 0
       THEN /\ outch' = [outch EXCEPT !.buf = Tail(@)]
            /\ stdout' = Append(stdout, Head(outch.buf))
            /\ UNCHANGED mpc
       ELSE /\ outch.closed
            /\ mpc' = "exited"
            /\ UNCHANGED <<outch, stdout>>
    /\ UNCHANGED <<wk, wg, inch, cpc>>
    /\ UNCHANGED nonW

WNext ==
    \/ \E w \in Workers : WorkerDial(w)
    \/ \E w \in Workers : WorkerRecv(w)
    \/ \E w \in Workers : WorkerQuery(w)
    \/ \E w \in Workers : WorkerSend(w)
    \/ \E w \in Workers : WorkerDone(w)
    \/ \E w \in Workers : WorkerClose(w)
    \/ Closer
    \/ ProcessFile
    \/ MainRange

InitW == WInit /\ TIdle /\ EIdle /\ OIdle /\ NIdle /\ AIdle /\ PIdle

SpecW == InitW /\ [][WNext]_vars

\* the Go scheduler does not leave the program idle while a goroutine is
\* able to run: some runnable goroutine takes the next step.  Nothing is
\* assumed about which one, so what holds here holds under any fairer
\* scheduling of the individual goroutines
SpecWF == InitW /\ [][WNext]_vars /\ WF_vars(WNext)

-----------------------------------------------------------------------------
(* A Do53 client in TCP mode and a DoT client side by side: each runs its *)
(* own Exchange and Close on the calls and the outcomes of one script     *)

Pair == {"Do53", "DoT"}

\* the configurations of the comparison: Do53 in TCP mode
PairConfigs == {cfg \in Configs : cfg.TCP /\ cfg.ClientSubnet = "zero"}

PairCalls == {"Exchange", "Close"}

\* a network action of a client: what was done, on which handle, and the
\* error it ended with
PairEvent(ev, h, err) == [ev |-> ev, h |-> h, err |-> err]

\* a client after New: no connection
NewPairClient ==
    [conn |-> 0, pc |-> "idle", reused |-> FALSE, retried |-> FALSE,
     calls |-> 0, dials |-> 0, wires |-> 0, log |-> <<>>, rets |-> <<>>]

\* the i+1-th entry of the script when it is written, any of S otherwise
NextOf(sq, i, S) == IF i < Len(sq) THEN {sq[i + 1]} ELSE S

\* the script after its i+1-th entry was met as x
Extend(sq, i, x) == IF i < Len(sq) THEN sq ELSE Append(sq, x)

\* Do53Client.Close
Do53Close(st) ==
    IF st.conn = 0 THEN st
    ELSE [st EXCEPT !.log = Append(@, PairEvent("close", st.conn, NilErr)),
                    !.conn = 0]

\* Do53Client.exchangeTCP from the label reconnect to ExchangeWithConn: out
\* is the outcome of the dial, if one is made
Do53Connect(st, out) ==
    IF st.conn # 0
    THEN [st EXCEPT !.reused = TRUE, !.pc = "exchange"]
    ELSE IF out # NilErr
    THEN [st EXCEPT !.dials = @ + 1,
                    !.log = Append(@, PairEvent("dial", 0, out)),
                    !.rets = Append(@, Return(NilResp, DialError(out))),
                    !.pc = "idle"]
    ELSE [st EXCEPT !.dials = @ + 1,
                    !.conn = st.dials + 1,
                    !.log = Append(@, PairEvent("dial", st.dials + 1, NilErr)),
                    !.pc = "exchange"]

\* Do53Client.exchangeTCP after ExchangeWithConn ended with out and, with
\* KeepOpen unset, the connection was closed
Do53AfterWire(st, resp, out) ==
    IF out = NilErr
    THEN [st EXCEPT !.rets = Append(@, Return(resp, NilErr)), !.pc = "idle"]
    ELSE IF ~ErrorsIs(out, EOF)
    THEN [st EXCEPT !.rets = Append(@, Return(NilResp, out)), !.pc = "idle"]
    ELSE IF st.reused /\ ~st.retried
    THEN [Do53Close(st) EXCEPT !.retried = TRUE, !.pc = "reconnect"]
    ELSE [Do53Close(st) EXCEPT !.rets = Append(@, Return(NilResp, out)),
                               !.pc = "idle"]

\* Do53Client.exchangeTCP from ExchangeWithConn on
Do53Wire(st, cfg, out) ==
    Do53AfterWire(
        IF ~cfg.KeepOpen
        THEN Do53Close([st EXCEPT !.wires = @ + 1,
                                  !.log = Append(@, PairEvent("wire", st.conn, out))])
        ELSE [st EXCEPT !.wires = @ + 1,
                        !.log = Append(@, PairEvent("wire", st.conn, out))],
        Resp(FALSE, st.conn, st.wires + 1), out)

\* a Close that closes the connection and keeps the conn field
DoTClose_KeepsConn(st) ==
    IF st.conn = 0 THEN st
    ELSE [st EXCEPT !.log = Append(@, PairEvent("close", st.conn, NilErr))]

\* DoTClient.Close
DoTClose(st) ==
    IF st.conn = 0 THEN st
    ELSE [st EXCEPT !.log = Append(@, PairEvent("close", st.conn, NilErr)),
                    !.conn = 0]

\* DoTClient.Exchange from the label reconnect to ExchangeWithConn
DoTConnect(st, out) ==
    IF st.conn # 0
    THEN [st EXCEPT !.reused = TRUE, !.pc = "exchange"]
    ELSE IF out # NilErr
    THEN [st EXCEPT !.dials = @ + 1,
                    !.log = Append(@, PairEvent("dial", 0, out)),
                    !.rets = Append(@, Return(NilResp, DialError(out))),
                    !.pc = "idle"]
    ELSE [st EXCEPT !.dials = @ + 1,
                    !.conn = st.dials + 1,
                    !.log = Append(@, PairEvent("dial", st.dials + 1, NilErr)),
                    !.pc = "exchange"]

\* DoTClient.Exchange after ExchangeWithConn ended with out and, with
\* KeepOpen unset, the connection was closed
DoTAfterWire(st, resp, out) ==
    IF out = NilErr
    THEN [st EXCEPT !.rets = Append(@, Return(resp, NilErr)), !.pc = "idle"]
    ELSE IF ~ErrorsIs(out, EOF)
    THEN [st EXCEPT !.rets = Append(@, Return(NilResp, out)), !.pc = "idle"]
    ELSE IF st.reused /\ ~st.retried
    THEN [DoTClose(st) EXCEPT !.retried = TRUE, !.pc = "reconnect"]
    ELSE [DoTClose(st) EXCEPT !.rets = Append(@, Return(NilResp, out)),
                              !.pc = "idle"]

\* DoTClient.Exchange from ExchangeWithConn on
DoTWire(st, cfg, out) ==
    DoTAfterWire(
        IF ~cfg.KeepOpen
        THEN DoTClose([st EXCEPT !.wires = @ + 1,
                                 !.log = Append(@, PairEvent("wire", st.conn, out))])
        ELSE [st EXCEPT !.wires = @ + 1,
                        !.log = Append(@, PairEvent("wire", st.conn, out))],
        Resp(FALSE, st.conn, st.wires + 1), out)

CloseOf(k, st) == IF k = "Do53" THEN Do53Close(st) ELSE DoTClose(st)

ConnectOf(k, st, out) == IF k = "Do53" THEN Do53Connect(st, out) ELSE DoTConnect(st, out)

WireOf(k, st, cfg, out) ==
    IF k = "Do53" THEN Do53Wire(st, cfg, out) ELSE DoTWire(st, cfg, out)

\* the caller's call of Exchange or Close on client k
AfterCall(k, st, cfg, op) ==
    IF op = "Close"
    THEN [CloseOf(k, st) EXCEPT !.calls = @ + 1,
                                !.rets = Append(@, Return(NilResp, NilErr))]
    ELSE [st EXCEPT !.calls = @ + 1, !.reused = FALSE, !.retried = FALSE,
                    !.pc = Dispatch(k, cfg)]

PInit ==
    /\ pair = [k \in Pair |-> NewPairClient]
    /\ script \in [cfg : PairConfigs, calls : {<<>>}, dials : {<<>>}, wires : {<<>>}]

\* the caller makes each call on the Do53 client first and, when it has
\* returned, on the DoT client
Turn(k) ==
    /\ \A j \in Pair : pair[j].pc = "idle"
    /\ IF k = "Do53" THEN pair["DoT"].calls = pair["Do53"].calls
                     ELSE pair["DoT"].calls < pair["Do53"].calls

\* the caller calls c.Exchange(req) or c.Close() on client k
PairCall(k) ==
    /\ Turn(k)
    /\ pair[k].calls < MaxCalls
    /\ \E op \in NextOf(script.calls, pair[k].calls, PairCalls) :
          /\ script' = [script EXCEPT !.calls = Extend(@, pair[k].calls, op)]
          /\ pair' = [pair EXCEPT ![k] = AfterCall(k, pair[k], script.cfg, op)]
    /\ UNCHANGED nonP

\* client k at the label reconnect: reuse the connection or dial
PairConnect(k) ==
    /\ pair[k].pc = "reconnect"
    /\ IF pair[k].conn # 0
       THEN /\ pair' = [pair EXCEPT ![k] = ConnectOf(k, pair[k], NilErr)]
            /\ UNCHANGED script
       ELSE \E out \in NextOf(script.dials, pair[k].dials, {NilErr} \cup DialErrs) :
              /\ script' = [script EXCEPT !.dials = Extend(@, pair[k].dials, out)]
              /\ pair' = [pair EXCEPT ![k] = ConnectOf(k, pair[k], out)]
    /\ UNCHANGED nonP

\* client k runs ExchangeWithConn and everything up to the return or the
\* goto reconnect
PairWire(k) ==
    /\ pair[k].pc = "exchange"
    /\ \E out \in NextOf(script.wires, pair[k].wires, {NilErr} \cup WireErrs) :
          /\ script' = [script EXCEPT !.wires = Extend(@, pair[k].wires, out)]
          /\ pair' = [pair EXCEPT ![k] = WireOf(k, pair[k], script.cfg, out)]
    /\ UNCHANGED nonP

PNext ==
    \/ \E k \in Pair : PairCall(k)
    \/ \E k \in Pair : PairConnect(k)
    \/ \E k \in Pair : PairWire(k)

InitP == PInit /\ TIdle /\ EIdle /\ OIdle /\ NIdle /\ AIdle /\ WIdle

SpecP == InitP /\ [][PNext]_vars

-----------------------------------------------------------------------------
(* Properties of the aggregation functions *)

\* the call is over: it returned, panicked or reached mu.BUG
AOver == apc \in {"returned", "panic", "bug"}

\* the lookups of the call that returned an error
FailedLookups == {i \in DOMAIN alog : alog[i].err # NilErr}

\* the lookups of the call that returned a response
GoodLookups == {i \in DOMAIN alog : alog[i].err = NilErr /\ ~alog[i].panic}

\* the targets of the PTR records of the answer to lookup i
PTRsOf(i) == {rr.Ptr : rr \in {x \in Range(alog[i].answer) : x.Rrtype = "PTR"}}

\* C21: GetAllServiceBrowserDomains issues the b, db and lb lookups
\* whatever the earlier ones did, returns an error if and only if all three
\* failed, and returns one browsing domain, a target of the lb answer, when
\* only the lb lookup succeeded
Cex_C21_AllThreeBrowserLookupsIssued ==
    (afn = "GetAllServiceBrowserDomains" /\ AOver) =>
        /\ Len(alog) = 3
        /\ \A i \in 1..3 :
              alog[i].q = BrowserQuestion(<<"b", "db", "lb">>[i], aarg)
        /\ apc = "returned"
        /\ aret.err # NilErr <=> FailedLookups = {1, 2, 3}
        /\ FailedLookups = {1, 2} =>
              Len(aret.value) = 1 /\ aret.value[1] \in PTRsOf(3)

\* GetAllServiceBrowserDomains returned browsing domains
BrowserDomainsFound ==
    afn = "GetAllServiceBrowserDomains" /\ apc = "returned" /\ aret.err = NilErr

\* the target of the first PTR record of the answer to lookup i
FirstPTROf(i) == CollectRRs(alog[i].answer, "PTR")[1].Ptr

\* C22 as stated: on success the result has no duplicate and is the union
\* of the PTR targets in the answers of the browsing-domain queries that
\* succeeded
Cex_C22_UnionOfAllPTRTargets ==
    BrowserDomainsFound =>
        /\ Len(aret.value) = Cardinality(Range(aret.value))
        /\ Range(aret.value) = UNION {PTRsOf(i) : i \in GoodLookups}

\* C22 amended: on success the result has no duplicate and is the union of
\* all the PTR targets of the b answer with the first PTR target of the db
\* answer and the first PTR target of the lb answer, over the queries that
\* succeeded
Thm_C22_UnionOfBAndFirstOfDbLb ==
    BrowserDomainsFound =>
        /\ Len(aret.value) = Cardinality(Range(aret.value))
        /\ Range(aret.value) =
              UNION {IF i = 1 THEN PTRsOf(i) ELSE {FirstPTROf(i)} : i \in GoodLookups}

\* C22 witness: only the db query succeeded, its answer holds two PTR
\* records with different targets, and the result is the first target alone
Wit_C22_SecondDefaultDomainDropped ==
    /\ BrowserDomainsFound
    /\ GoodLookups = {2}
    /\ Cardinality(PTRsOf(2)) = 2
    /\ aret.value = << FirstPTROf(2) >>

\* the first record of type T in the answer to lookup i
FirstOf(i, T) == CollectRRs(alog[i].answer, T)[1]

\* C23: GetServiceInstanceInfo returns an error if and only if the SRV
\* lookup fails, and then makes no TXT lookup; when the SRV lookup succeeds
\* it returns the priority, weight, port and target of the SRV record with
\* no error, and the TXT strings are there if and only if the TXT lookup
\* succeeded
Cex_C23_SRVDecidesTXTOptional ==
    (afn = "GetServiceInstanceInfo" /\ AOver) =>
        /\ apc = "returned"
        /\ aret.err # NilErr <=> 1 \in FailedLookups
        /\ 1 \in FailedLookups => Len(alog) = 1
        /\ 1 \in GoodLookups =>
              /\ Len(alog) = 2
              /\ alog[2].q = Question(aarg, "TXT")
              /\ aret.value.Priority = FirstOf(1, "SRV").Priority
              /\ aret.value.Weight = FirstOf(1, "SRV").Weight
              /\ aret.value.Port = FirstOf(1, "SRV").Port
              /\ aret.value.Target = FirstOf(1, "SRV").Target
              /\ aret.value.Txt # <<>> <=> 2 \in GoodLookups
              /\ 2 \in GoodLookups => aret.value.Txt = FirstOf(2, "TXT").Txt

\* the data of the records of type T in the answer to lookup i that is an
\* address of 4 or 16 bytes
AddrsOf(i) ==
    LET data(rr) == IF rr.Rrtype = "A" THEN rr.A ELSE rr.AAAA
        recs == SelectSeq(alog[i].answer,
                          LAMBDA rr : rr.Rrtype = alog[i].q.Qtype
                                      /\ Len(data(rr)) \in {4, 16})
    IN  [k \in DOMAIN recs |-> data(recs[k])]

\* C25: GetIPs issues the A and the AAAA lookup, returns a joined error if
\* and only if both failed, and otherwise returns with no error the
\* addresses of the lookups that succeeded, those of A before those of AAAA
Cex_C25_BothAddressLookupsIssued ==
    (afn = "GetIPs" /\ AOver) =>
        /\ Len(alog) = 2
        /\ alog[1].q = Question(aarg, "A")
        /\ alog[2].q = Question(aarg, "AAAA")
        /\ apc = "returned"
        /\ aret.err # NilErr <=> FailedLookups = {1, 2}
        /\ aret.err # NilErr => aret.err = <<"errors.Join", <<alog[1].err, alog[2].err>> >>
        /\ aret.err = NilErr =>
              aret.value = (IF 1 \in GoodLookups THEN AddrsOf(1) ELSE <<>>)
                           \o (IF 2 \in GoodLookups THEN AddrsOf(2) ELSE <<>>)

\* GetNameServers is over and getNS had found the name-server names
NamesFound ==
    /\ afn = "GetNameServers" /\ AOver
    /\ alog[1].err = NilErr /\ ~alog[1].panic

\* the addresses the two lookups for the k-th name server returned
AddrsOfNameServer(k) ==
    (IF 2 * k \in GoodLookups THEN AddrsOf(2 * k) ELSE <<>>)
    \o (IF 2 * k + 1 \in GoodLookups THEN AddrsOf(2 * k + 1) ELSE <<>>)

\* the name servers one of whose two address lookups succeeded, in the order
\* getNS returned them
ResolvedNameServers ==
    LET names == alog[1].names
        ok    == SelectSeq([k \in 1..Len(names) |-> k],
                           LAMBDA k : 2 * k \in GoodLookups \/ 2 * k + 1 \in GoodLookups)
    IN  [j \in DOMAIN ok |-> [Name |-> names[ok[j]], Addrs |-> AddrsOfNameServer(ok[j])]]

\* C26: once the name-server names are found, GetNameServers makes the A
\* and the AAAA lookup of every name server, returns a joined error only
\* when all of them failed, and otherwise returns with no error the name
\* servers whose address lookup succeeded
Cex_C26_EveryNameServerLookedUp ==
    NamesFound =>
        /\ Len(alog) = 1 + 2 * Len(alog[1].names)
        /\ \A k \in 1..Len(alog[1].names) :
              /\ alog[2 * k].q = Question(alog[1].names[k], "A")
              /\ alog[2 * k + 1].q = Question(alog[1].names[k], "AAAA")
        /\ apc = "returned"
        /\ aret.err # NilErr <=> ResolvedNameServers = <<>>
        /\ aret.err = NilErr => aret.value = ResolvedNameServers

\* C27: whatever the transport returns, GetIPs, GetNameServers and
\* GetAllServiceBrowserDomains never reach their mu.BUG branch, and when
\* they return they return a result or an error
Thm_C27_DefectBranchesUnreachable ==
    afn \in {"GetIPs", "GetNameServers", "GetAllServiceBrowserDomains"} =>
        /\ apc # "bug"
        /\ apc = "returned" => (aret.value # <<>> \/ aret.err # NilErr)

\* C27 witness: both lookups of GetIPs got an answer with records of the
\* asked type, none of them an address, and GetIPs returned the two errors
\* joined
Wit_C27_NoAddressButTwoErrors ==
    /\ afn = "GetIPs" /\ apc = "returned"
    /\ Len(alog) = 2
    /\ \A i \in 1..2 : alog[i].answer # <<>> /\ AddrsOf(i) = <<>>
    /\ aret.value = <<>>
    /\ aret.err = <<"errors.Join", <<alog[1].err, alog[2].err>> >>

\* the calls of the function fn that doServicesMetaQuery made, in order
CallsOf(fn) == SelectSeq(alog, LAMBDA e : e.fn = fn)

\* the arguments of these calls, in order
ArgsOf(fn) == [k \in DOMAIN CallsOf(fn) |-> CallsOf(fn)[k].arg]

\* the names the calls of fn returned, all calls together
NamesFrom(fn) ==
    UNION {Range(e.names) : e \in {x \in Range(CallsOf(fn)) : x.err = NilErr /\ ~x.panic}}

\* C24: doServicesMetaQuery browses the original domain alone exactly when
\* GetAllServiceBrowserDomains found no browsing domain, and otherwise the
\* domains found; it asks for the instances of each service once, whatever
\* the number of browsing domains that advertise it; and a GetServices,
\* GetServiceInstances or GetServiceInstanceInfo call that fails does not
\* stop the calls for the remaining browsing domains, services and instances
Cex_C24_EnumerationSkipsFailures ==
    (afn = "doServicesMetaQuery" /\ AOver) =>
        /\ apc = "returned"
        /\ ArgsOf("GetServices") =
              IF alog[1].err = NilErr THEN alog[1].names ELSE <<aarg>>
        /\ Len(ArgsOf("GetServiceInstances"))
              = Cardinality(Range(ArgsOf("GetServiceInstances")))
        /\ Range(ArgsOf("GetServiceInstances")) = NamesFrom("GetServices")
        /\ Range(ArgsOf("GetServiceInstanceInfo")) = NamesFrom("GetServiceInstances")

-----------------------------------------------------------------------------
(* Properties of the worker-pool scan *)

\* the worker has left its loop and called wg.Done(): it sends nothing more
Finished(w) == wk[w].pc \in {"close", "returned"}

\* C28: in every interleaving, outch is closed only when every worker has
\* left its loop and signalled the wait group, and no worker ever sends on
\* outch after it was closed (such a send would panic).
Thm_C28_ClosedOnlyAfterWorkersNoLateSend ==
    /\ outch.closed => \A w \in Workers : Finished(w)
    /\ \A w \in Workers : wk[w].pc # "sendpanic"

\* outch is closed after both lines were fed and a worker that had queried
\* the second line has sent its record
Wit_C28_ClosedAfterRecordsSent ==
    /\ outch.closed
    /\ inch.fed = NumLines
    /\ \E w \in Workers : wk[w].job = NumLines /\ wk[w].res # "none"

\* C29: once every worker has signalled completion and the aggregator has
\* drained the closed outch, no worker's client holds a connection.
Cex_C29_NoConnectionOpenOnceDrained ==
    (wg = 0 /\ outch.closed /\ outch.buf = <<>> /\ mpc = "exited")
        => \A w \in Workers : ~wk[w].conn

-----------------------------------------------------------------------------
(* Properties of the two clients side by side *)

IsPrefix(a, b) == Len(a) <= Len(b) /\ SubSeq(b, 1, Len(a)) = a

Comparable(a, b) == IsPrefix(a, b) \/ IsPrefix(b, a)

\* C30: on the same KeepOpen setting, the same calls and the same dial and
\* wire outcomes, the Do53 client in TCP mode and the DoT client perform
\* the same network actions in the same order and return the same results,
\* and after the same number of calls they are in the same state.
Thm_C30_SameLifecycle ==
    /\ Comparable(pair["Do53"].log, pair["DoT"].log)
    /\ Comparable(pair["Do53"].rets, pair["DoT"].rets)
    /\ (/\ pair["Do53"].pc = "idle"
        /\ pair["DoT"].pc = "idle"
        /\ pair["Do53"].calls = pair["DoT"].calls)
           => pair["Do53"] = pair["DoT"]

\* both clients have finished the last call, with KeepOpen set, after a
\* reused connection met EOF, was closed, and a new one was dialled
Wit_C30_BothRetriedOnEOF ==
    /\ script.cfg.KeepOpen
    /\ pair["Do53"].pc = "idle"
    /\ pair["DoT"].pc = "idle"
    /\ pair["Do53"].calls = MaxCalls
    /\ pair["DoT"].calls = MaxCalls
    /\ "Close" \in Range(script.calls)
    /\ \E i \in 1..(Len(pair["DoT"].log) - 2) :
          /\ pair["DoT"].log[i].ev = "wire"
          /\ pair["DoT"].log[i].err = EOF
          /\ pair["DoT"].log[i].h # pair["DoT"].dials
          /\ pair["DoT"].log[i + 1].ev = "close"
          /\ pair["DoT"].log[i + 2].ev = "dial"

-----------------------------------------------------------------------------
(* Further properties of the resolution engine *)

\* C31 as stated: when Exchange has returned, the caller's request has the
\* question name, the question type and the transaction id it was built
\* with.
Cex_C31_CallerRequestUntouched ==
    Returned => /\ callerReq.Name = "example.com."
                /\ callerReq.Qtype = ereq.Qtype
                /\ callerReq.Id = FirstId

\* the engine is about to make a round trip that follows a response which
\* carried only a valid CNAME chain from the name then queried
FollowsChain ==
    /\ epc = "exchange"
    /\ trips > 0
    /\ hist[Len(hist)] = "chain"

\* C32: the round trip that follows a response carrying only a valid CNAME
\* chain from the queried name, and no record of the requested type, asks
\* for the final target of that chain with the requested type of the query.
Thm_C32_NextTripAsksFinalTarget ==
    FollowsChain => /\ ereq.Name \in {Fqdn(x) : x \in chased.Finals}
                    /\ ereq.Qtype = chased.Qtype
                    /\ ereq.Qtype = callerReq.Qtype

\* the second round trip of a query for example.com. of type A is about to
\* ask for the target of the alias the first response named
Wit_C32_SecondTripForTarget ==
    /\ FollowsChain
    /\ trips = 1
    /\ chased.Name = "example.com."
    /\ ereq = [Name |-> "target.example.com.", Qtype |-> "A", Id |-> NextId(FirstId)]

\* the loop of Exchange ended without a return
LeftLoop == Stopped /\ iter > maxCNAMEs

\* C33: with MaxCNAMEs >= 0 the engine leaves its loop without returning
\* only with a non-empty CNAME set and then fails with MaxCNAMEs; the code
\* after that test, marked unreachable, is never executed.
Thm_C33_UnreachableCodeNotReached ==
    /\ epc # "bug"
    /\ LeftLoop => /\ Len(cnames) > 0
                   /\ epc = "done"
                   /\ eret.kind = "maxcnames"

\* the engine followed CNAMEs in every one of its MaxHops + 1 iterations
\* and failed with MaxCNAMEs
Wit_C33_BudgetSpentOnCNAMEs ==
    /\ LeftLoop
    /\ maxCNAMEs = MaxHops
    /\ trips = MaxHops + 1
    /\ eret.kind = "maxcnames"

-----------------------------------------------------------------------------
(* Further properties of OrderCNAMEs *)

\* C34 as stated: on any input OrderCNAMEs ends without an index out of
\* range, and the number of sorted records never exceeds the length of the
\* slice.
Cex_C34_NeverOutOfRange ==
    /\ opc # "panic"
    /\ ost.n <= Len(oin)

-----------------------------------------------------------------------------
(* Further properties of the aggregation functions *)

\* the lookups that returned a response and no error
SucceededLookups == {i \in DOMAIN alog : ~alog[i].panic /\ alog[i].lerr = NilErr}

\* C35: whenever Lookup succeeds for a record type, the answer section it
\* returns holds at least one record of that type, so that lookupOnePTR,
\* lookupOneSRV and lookupOneTXT never take element 0 of an empty slice: a
\* panic of these functions is a panic inside Lookup.
Thm_C35_SuccessHasRecordOfType ==
    /\ \A i \in SucceededLookups :
           Len(CollectRRs(alog[i].answer, alog[i].q.Qtype)) > 0
    /\ apc = "panic" => alog[Len(alog)].panic

\* the SRV lookup succeeded on an answer that begins with a CNAME record,
\* and lookupOneSRV took the first SRV record
Wit_C35_FirstSRVBehindAlias ==
    /\ afn = "GetServiceInstanceInfo"
    /\ apc = "txt"
    /\ 1 \in SucceededLookups
    /\ alog[1].answer[1].Rrtype = "CNAME"
    /\ aloc.info.Port = 22

-----------------------------------------------------------------------------
(* Further properties of the transport clients *)

\* connections dialed by the TCP-mode clients of the fallback and not closed
FallbackOpen == {x \in open : x.by # 0}

\* C36 as stated: when an Exchange call has returned, every connection that
\* a TCP-mode client of the truncation fallback opened is closed, whatever
\* KeepOpen is, so that the open connections no client can reach do not
\* grow with the number of truncated responses.
Cex_C36_FallbackConnectionsClosed ==
    pc = "idle" => FallbackOpen = {}

\* the wire exchanges of the last call that ended with an error
FailedWires == {i \in DOMAIN log : log[i].ev = "wire" /\ log[i].err # NilErr}

\* an Exchange call of a Do53/TCP or DoT client has returned an error
ReturnedError == KeepOpenClient /\ pc = "idle" /\ calls > 0 /\ ret.err # NilErr

\* C37 as stated: on Do53/TCP and DoT, once an Exchange call has returned an
\* error the client no longer holds the connection on which the error
\* occurred.
Cex_C37_FailedConnectionDropped ==
    ReturnedError =>
        \A i \in FailedWires : conn # log[i].h /\ log[i].h \notin OpenBy(0)

\* C37 amended: once an Exchange call has returned an error, the client no
\* longer holds the connection on which the error occurred if the error is
\* peer-closed or KeepOpen is unset; with KeepOpen set, an error other than
\* peer-closed leaves the connection open in the client, and a call that
\* starts on a held connection reuses it.
Thm_C37_DroppedOnEOFOrWithoutKeepOpen ==
    [][ /\ (pc # "idle" /\ pc' = "idle" /\ ReturnedError') =>
            \A i \in FailedWires' :
                IF PeerClosed(log'[i].err) \/ ~config.KeepOpen
                THEN conn' # log'[i].h /\ log'[i].h \notin OpenBy(0)'
                ELSE conn' = log'[i].h /\ log'[i].h \in OpenBy(0)'
        /\ (KeepOpenClient /\ pc = "reconnect" /\ conn # 0) =>
            /\ pc' = "exchange"
            /\ conn' = conn
            /\ log'[Len(log')].ev = "reuse" /\ log'[Len(log')].h = conn
      ]_vars

\* with KeepOpen, a call that reused the connection met a timeout and
\* returned it, and the client still holds that connection
Wit_C37_TimedOutConnectionStillHeld ==
    /\ ReturnedError
    /\ config.KeepOpen
    /\ Len(log) = 2
    /\ log[1].ev = "reuse"
    /\ log[2].ev = "wire" /\ log[2].err = <<"read tcp", "i/o timeout">>
    /\ conn = log[2].h

\* a step of Close: the only step that starts and ends with no call running
CloseStep == pc = "idle" /\ pc' = "idle"

\* C38: Close is idempotent and leaves the client usable.  A Close on a
\* client without a connection returns nil and leaves the client, the open
\* connections and the handles alone; after any Close the client is the
\* client its constructor built and its connection is no longer open, so a
\* second Close is a Close on a client without a connection; and a call
\* that starts without a connection begins by dialling, on success over a
\* handle that was not open before, exactly as the first call does.
Thm_C38_CloseIdempotentClientUsable ==
    [][ /\ CloseStep =>
            /\ closeErr' # NoClose
            /\ (variant = "DoH" \/ conn = 0) =>
                   /\ closeErr' = NilErr
                   /\ <<conn', tcpClient', open', nextConn'>> = <<conn, tcpClient, open, nextConn>>
            /\ [variant |-> variant', conn |-> conn'] = NewClient(variant)
            /\ OpenBy(0)' = {}
        /\ (variant # "DoH" /\ cur = "c" /\ pc \in {"reconnect", "udp"} /\ conn = 0) =>
            /\ Len(log') = Len(log) + 1
            /\ log'[Len(log')].ev = "dial" /\ log'[Len(log')].cl = "c"
            /\ conn' = log'[Len(log')].h
            /\ conn' # 0 => conn' \notin OpenBy(0) /\ conn' \in OpenBy(0)'
            /\ (conn' = 0) = (log'[Len(log')].err # NilErr)
      ]_vars

\* with KeepOpen, Close closed a held connection with an error from the
\* connection, and the next call dialled a second connection and succeeded
Wit_C38_DialledAgainAfterClose ==
    /\ KeepOpenClient /\ config.KeepOpen
    /\ pc = "idle" /\ calls >= 2 /\ ret.err = NilErr
    /\ closeErr \in CloseErrs
    /\ startConn = 0
    /\ Len(log) = 2 /\ log[1].ev = "dial" /\ log[1].h = nextConn - 1
    /\ nextConn = 3 /\ conn = log[1].h

-----------------------------------------------------------------------------
(* Further properties of the worker-pool scan *)

\* the lines main printed for the name that processFile read as line n
LinesFor(n) == {i \in DOMAIN stdout : stdout[i].qname = n}

\* C39: whichever workers fail to connect, when main leaves its loop it has
\* received exactly one record for every name processFile read from the
\* input.
Cex_C39_OneRecordPerNameRead ==
    mpc = "exited" => \A n \in 1..inch.fed : Cardinality(LinesFor(n)) = 1

\* a Query call has panicked instead of returning
QueryPanicked == \E w \in Workers : wk[w].panicking

\* C40: under fair scheduling, whichever workers fail to connect and
\* whatever happens to the queries, main eventually finds outch closed and
\* drained and leaves its loop.
Cex_C40_AggregatorFinishes == <>(mpc = "exited")

\* main is never left waiting: it leaves its loop unless a Query call
\* panics, and then either it has left the loop or the program is dead
AggregatorFinishesUnlessQueryPanics ==
    /\ <>(mpc = "exited" \/ QueryPanicked)
    /\ <>(mpc # "range")

====
